---- MODULE Spec2Model ----
(***************************************************************************)
(* Campfire: the two particle simulators (EmberSystem, SmokeSystem), the   *)
(* animation loop, the page script, the noise module, the rock generator,  *)
(* the lighting, the fire and the scene manager, each under a              *)
(* specification of its own.                                               *)
(*                                                                         *)
(* Numbers are fixed point.  Time is counted in ticks of 0.05 s, so that   *)
(* the 0.1 s clamp of EmberSystem.update is MaxDelta = 2 ticks.  Lengths,  *)
(* speeds, sizes and the normalized life value are in thousandths (Milli). *)
(* Math.random() is a value r / RandDen with r in 0..RandMax; the n-th     *)
(* draw after a seed is the seed advanced n times (Math.random is a        *)
(* deterministic generator with hidden state).  The arguments of sin/cos   *)
(* are whole quarter turns, where sine and cosine are exactly -1, 0 or 1;  *)
(* the turbulence phase of an update is an input of the update.  The       *)
(* per-particle phase fields (flicker, spiralPhase, spiralSpeed,           *)
(* noiseOffset) only feed sin/cos arguments and are part of that phase.    *)
(***************************************************************************)
EXTENDS Integers, Sequences, FiniteSets, TLC

\* ------------------------------------------------------------------ bounds
EmberCount == 4          \* config.count of the EmberSystem under study
SmokeCount == 3          \* config.maxParticles of the SmokeSystem under study
EmberSpawnRate == 30     \* config.spawnRate (particles per second)
SmokeSpawnRate == 30     \* config.spawnRate (particles per second)
EmberMinLife == 3        \* config.minLife, in ticks
EmberLifeSpread == 2     \* config.maxLife - config.minLife, in ticks
SmokeMinLifetime == 2    \* config.minLifetime, in ticks
SmokeLifetimeSpread == 2 \* config.maxLifetime - config.minLifetime, in ticks
RandMax == 1             \* Math.random() takes the values 0/RandDen .. RandMax/RandDen
MaxFrames == 3           \* update calls per behaviour
MaxAttempts == 6         \* spawnParticle calls per behaviour of SpawnSpec
NumCallbacks == 2        \* distinct update callbacks a caller of the loop has
MaxTicks == 2            \* ticks per behaviour of LoopSpec
RockCount == 2           \* count of createRockRing
MaxPageFrames == 50      \* ticks per behaviour of PageSpec
MaxOctaves == 2          \* octave counts the noise functions are called with
MaxLightTicks == 8       \* time a behaviour of LightSpec updates the lighting for, in ticks
MaxFireTicks == 12       \* time a behaviour of FireSpec updates the fire for, in ticks
MaxManagers == 3         \* SceneManagers constructed per behaviour of ManagerSpec
MaxDisposals == 2        \* dispose() calls per SceneManager

\* --------------------------------------------------------------- constants
MaxDelta == 2            \* Math.min(deltaTime, 0.1): 0.1 s = 2 ticks

TicksPerSecond == 10 * MaxDelta
Milli == 10 * 10 * 10
RandDen == RandMax + 1
Seeds == 0 .. RandMax
\* deltaTime arguments: none, below, at and above the clamp
DeltaTimes == 0 .. (MaxDelta + 1)
OffScreenY == (0 - 100) * Milli
EmberBurst == (EmberCount * 3) \div 10

Min(a, b) == IF a <= b THEN a ELSE b
Max(a, b) == IF a >= b THEN a ELSE b
Abs(a) == IF a >= 0 THEN a ELSE 0 - a

\* Math.cos / Math.sin at q quarter turns.
Cos(q) == <<1, 0, -1, 0>>[(q % 4) + 1]
Sin(q) == <<0, 1, 0, -1>>[(q % 4) + 1]

\* The values of the Math.random() calls of one spawnParticle after seed s:
\* a uniform value u / RandDen and an angle of q quarter turns.
Draw(s) == [u |-> s % RandDen, q |-> s % 4]
NextSeed(s) == (s + 1) % RandDen

\* rand * range, for rand = u / RandDen.
Rand(u, range) == (u * range) \div RandDen

Vec(x, y, z) == [x |-> x, y |-> y, z |-> z]
ZeroVec == Vec(0, 0, 0)

\* FindInactive recycling the first slot when every slot is active.
FindInactiveOrFirst(ps) ==
    IF \E i \in 1 .. Len(ps) : ~ps[i].active
    THEN CHOOSE i \in 1 .. Len(ps) :
            /\ ~ps[i].active
            /\ \A j \in 1 .. (i - 1) : ps[j].active
    ELSE Min(1, Len(ps))

\* FindInactive searching from the end of the pool.
FindInactiveLast(ps) ==
    IF \E i \in 1 .. Len(ps) : ~ps[i].active
    THEN CHOOSE i \in 1 .. Len(ps) :
            /\ ~ps[i].active
            /\ \A j \in (i + 1) .. Len(ps) : ps[j].active
    ELSE 0

\* The first index of a sequence of particles whose active flag is false,
\* 0 when there is none (Array.prototype.find returning undefined).
FindInactive(ps) ==
    IF \E i \in 1 .. Len(ps) : ~ps[i].active
    THEN CHOOSE i \in 1 .. Len(ps) :
            /\ ~ps[i].active
            /\ \A j \in 1 .. (i - 1) : ps[j].active
    ELSE 0

ActiveCount(ps) == Cardinality({i \in 1 .. Len(ps) : ps[i].active})

\* ============================================================ EmberSystem
EmberOrigin == Vec(0, 800, 0)        \* DEFAULT_CONFIG.origin (0, 0.8, 0)
EmberSpawnRadius == 300              \* DEFAULT_CONFIG.spawnRadius 0.3
EmberMinSize == 15 * Milli           \* DEFAULT_CONFIG.minSize
EmberMaxSize == 35 * Milli           \* DEFAULT_CONFIG.maxSize
EmberMaxLife == EmberMinLife + EmberLifeSpread

\* A pool slot as the constructor pushes it.
EmberBlank ==
    [position |-> ZeroVec, velocity |-> ZeroVec, life |-> 0, maxLife |-> 0,
     age |-> 0, size |-> 0, active |-> FALSE]

\* The object after the pool and buffer initialisation of the constructor,
\* before the initial spawn burst.
EmberPool(count) ==
    [particles |-> [i \in 1 .. count |-> EmberBlank],
     positions |-> [i \in 1 .. count |-> Vec(0, OffScreenY, 0)],
     lifetimes |-> [i \in 1 .. count |-> 0],
     sizes |-> [i \in 1 .. count |-> 0],
     spawnAccumulator |-> 0,
     noiseTime |-> 0,
     uTime |-> 0]

\* The particle spawnParticle initialises, from the draw d.
EmberFresh(d) ==
    LET radius == Rand(d.u, EmberSpawnRadius)
        speed == 800 + Rand(d.u, 1200)
        spreadRadius == Rand(d.u, 300)
    IN  [position |-> Vec(EmberOrigin.x + Cos(d.q) * radius,
                          EmberOrigin.y + ((Rand(d.u, Milli) - 300) * 400) \div Milli,
                          EmberOrigin.z + Sin(d.q) * radius),
         velocity |-> Vec(Cos(d.q) * spreadRadius, speed, Sin(d.q) * spreadRadius),
         maxLife |-> EmberMinLife + Rand(d.u, EmberMaxLife - EmberMinLife),
         age |-> 0,
         life |-> Milli,
         size |-> EmberMinSize + Rand(d.u, EmberMaxSize - EmberMinSize),
         active |-> TRUE]

\* spawnParticle pushing a new particle when the pool has no inactive slot.
EmberSpawnParticleGrowing(e, seed) ==
    LET i == FindInactive(e.particles)
    IN  IF i = 0 THEN [e EXCEPT !.particles = Append(e.particles, EmberFresh(Draw(seed)))]
        ELSE [e EXCEPT !.particles[i] = EmberFresh(Draw(seed))]

\* EmberSystem.spawnParticle: the first inactive slot becomes a fresh
\* particle; with no inactive slot the call returns at once.
EmberSpawnParticle(e, seed) ==
    LET i == FindInactive(e.particles)
    IN  IF i = 0 THEN e
        ELSE [e EXCEPT !.particles[i] = EmberFresh(Draw(seed))]

\* n consecutive spawnParticle calls.
RECURSIVE EmberSpawnTimes(_, _, _)
EmberSpawnTimes(e, seed, n) ==
    IF n = 0 THEN e
    ELSE EmberSpawnTimes(EmberSpawnParticle(e, seed), NextSeed(seed), n - 1)

\* new EmberSystem(config): the pool, then the initial burst.
EmberConstructed(seed) == EmberSpawnTimes(EmberPool(EmberCount), seed, EmberBurst)

\* The spawn loop written with `if` for `while`: one spawn per update.
EmberSpawnLoopOnce(e, seed, calls) ==
    IF e.spawnAccumulator >= TicksPerSecond
    THEN [sys |-> [EmberSpawnParticle(e, seed) EXCEPT
                    !.spawnAccumulator = e.spawnAccumulator - TicksPerSecond],
          calls |-> calls + 1]
    ELSE [sys |-> e, calls |-> calls]

\* The spawn loop ending when the pool is saturated, the rest carried over.
RECURSIVE EmberSpawnLoopCarrying(_, _, _)
EmberSpawnLoopCarrying(e, seed, calls) ==
    IF e.spawnAccumulator >= TicksPerSecond /\ FindInactive(e.particles) # 0
    THEN EmberSpawnLoopCarrying(
            [EmberSpawnParticle(e, seed) EXCEPT
                !.spawnAccumulator = e.spawnAccumulator - TicksPerSecond],
            NextSeed(seed), calls + 1)
    ELSE [sys |-> e, calls |-> calls]

\* The spawn loop of update: `while (acc >= 1) { spawnParticle();
\* acc -= 1 }`, the accumulator counted in 1/TicksPerSecond of a particle.
\* The result carries the number of spawnParticle calls made.
RECURSIVE EmberSpawnLoop(_, _, _)
EmberSpawnLoop(e, seed, calls) ==
    IF e.spawnAccumulator >= TicksPerSecond
    THEN EmberSpawnLoop(
            [EmberSpawnParticle(e, seed) EXCEPT
                !.spawnAccumulator = e.spawnAccumulator - TicksPerSecond],
            NextSeed(seed), calls + 1)
    ELSE [sys |-> e, calls |-> calls]

\* Math.pow(base, n) for a base in thousandths and a whole exponent.
RECURSIVE PowMilli(_, _)
PowMilli(base, n) ==
    IF n <= 0 THEN Milli ELSE (base * PowMilli(base, n - 1)) \div Milli

\* The time step left unclamped.
EmberClampNone(deltaTime) == deltaTime

\* const dt = Math.min(deltaTime, 0.1)
EmberClamp(deltaTime) == Min(deltaTime, MaxDelta)

EmberGravity == 0 - 500              \* gravity = -0.5
EmberAirResistance == 970            \* airResistance = 0.97
EmberTurbulence == 150               \* turbulenceStrength = 0.15

\* Math.max(0, 1 - age / maxLife)
EmberLife(age, maxLife) == Max(0, Milli - (age * Milli) \div maxLife)

\* The rest of the particle loop body for a particle, already aged, that
\* stays alive: gravity, air resistance, turbulence, spiral, position.
EmberMoved(p, dt, wave) ==
    LET age == p.age
        life == p.life
        vy0 == p.velocity.y + (EmberGravity * dt * 300) \div (TicksPerSecond * Milli)
        drag == PowMilli(EmberAirResistance, (dt * 60) \div TicksPerSecond)
        vx == (p.velocity.x * drag) \div Milli
                + (Sin(wave) * EmberTurbulence * dt) \div TicksPerSecond
        vy == (vy0 * drag) \div Milli
        vz == (p.velocity.z * drag) \div Milli
                + (Cos(wave) * EmberTurbulence * dt) \div TicksPerSecond
        spiralRadius == (20 * life) \div Milli
        spiralAngle == age + wave
        px == p.position.x + (Cos(spiralAngle) * spiralRadius * dt) \div TicksPerSecond
        pz == p.position.z + (Sin(spiralAngle) * spiralRadius * dt) \div TicksPerSecond
    IN  [p EXCEPT !.velocity = Vec(vx, vy, vz),
                  !.position = Vec(px + (vx * dt) \div TicksPerSecond,
                                   p.position.y + (vy * dt) \div TicksPerSecond,
                                   pz + (vz * dt) \div TicksPerSecond)]

\* The ageing with the age left as it was.
EmberAgedStill(p, dt) == [p EXCEPT !.life = EmberLife(p.age, p.maxLife)]

\* p.age += dt; p.life = Math.max(0, 1 - p.age / p.maxLife)
EmberAged(p, dt) ==
    [p EXCEPT !.age = p.age + dt, !.life = EmberLife(p.age + dt, p.maxLife)]

\* The particle loop with the death check `p.life < 0`.
EmberParticleAfterNeverDead(p, dt, wave) ==
    IF ~p.active THEN p
    ELSE IF EmberAged(p, dt).life < 0
         THEN [EmberAged(p, dt) EXCEPT !.active = FALSE]
         ELSE EmberMoved(EmberAged(p, dt), dt, wave)

\* The particle loop of update, for one slot: the particle afterwards.
EmberParticleAfter(p, dt, wave) ==
    IF ~p.active THEN p
    ELSE IF EmberAged(p, dt).life <= 0
         THEN [EmberAged(p, dt) EXCEPT !.active = FALSE]
         ELSE EmberMoved(EmberAged(p, dt), dt, wave)

\* The position entry of a dead slot left as it was.
EmberPositionOutStale(p, old) == IF p.active THEN p.position ELSE old

\* What the particle loop leaves in positions[i], lifetimes[i] and sizes[i]
\* for a slot holding p afterwards; old is the entry before.
EmberPositionOut(p, old) ==
    IF p.active THEN p.position ELSE [old EXCEPT !.y = OffScreenY]

EmberLifetimeOut(p, old) == IF p.active THEN p.life ELSE 0

EmberSizeOut(p, old) ==
    IF p.active THEN (p.size * (300 + (700 * p.life) \div Milli)) \div Milli ELSE old

\* EmberSystem.update(deltaTime), with the random seed of its spawns and the
\* turbulence phase of the frame.
EmberUpdated(e, deltaTime, seed, wave) ==
    LET dt == EmberClamp(deltaTime)
        spawned == EmberSpawnLoop(
            [e EXCEPT !.noiseTime = e.noiseTime + dt,
                      !.uTime = e.uTime + dt,
                      !.spawnAccumulator = e.spawnAccumulator + dt * EmberSpawnRate],
            seed, 0)
        s == spawned.sys
        n == Len(s.particles)
        after == [i \in 1 .. n |-> EmberParticleAfter(s.particles[i], dt, wave)]
    IN  [sys |->
            [s EXCEPT
                !.particles = after,
                !.positions = [i \in DOMAIN s.positions |->
                    EmberPositionOut(after[i], s.positions[i])],
                !.lifetimes = [i \in DOMAIN s.lifetimes |->
                    EmberLifetimeOut(after[i], s.lifetimes[i])],
                !.sizes = [i \in DOMAIN s.sizes |->
                    EmberSizeOut(after[i], s.sizes[i])]],
         calls |-> spawned.calls]

\* setIntensity putting every ember out at intensity 0.
EmberIntensitySetClearing(e, intensity) ==
    LET clamped == Max(0, Min(Milli, intensity))
    IN  [e EXCEPT !.spawnAccumulator = 0,
                  !.particles = [i \in 1 .. Len(e.particles) |->
                        IF clamped = 0 THEN [e.particles[i] EXCEPT !.active = FALSE]
                        ELSE e.particles[i]]]

\* EmberSystem.setIntensity(intensity): the clamped value is unused, the
\* spawn accumulator is reset.
EmberIntensitySet(e, intensity) ==
    LET clamped == Max(0, Min(Milli, intensity))
    IN  [e EXCEPT !.spawnAccumulator = 0]

\* ============================================================ SmokeSystem
SmokeSpawnRadius == 300              \* DEFAULT_CONFIG.spawnRadius 0.3
SmokeSpawnHeight == 1800             \* DEFAULT_CONFIG.spawnHeight 1.8
SmokeTurbulence == 300               \* DEFAULT_CONFIG.turbulenceStrength 0.3
SmokeWind == Vec(100, 0, 50)         \* DEFAULT_CONFIG.wind (0.1, 0, 0.05)
SmokeBaseSize == Milli               \* DEFAULT_CONFIG.baseSize 1.0
SmokeMaxLifetime == SmokeMinLifetime + SmokeLifetimeSpread
SmokeDead == Milli                   \* life = 1 means dead

\* A pool slot as the constructor pushes it.
SmokeBlank ==
    [active |-> FALSE, position |-> ZeroVec, velocity |-> ZeroVec, life |-> 0,
     lifeSpeed |-> 0, size |-> Milli, rotation |-> 0, rotationSpeed |-> 0]

\* new SmokeSystem(config): the pool, zeroed typed arrays, lives filled with 1.
SmokePool(maxParticles) ==
    [particles |-> [i \in 1 .. maxParticles |-> SmokeBlank],
     positions |-> [i \in 1 .. maxParticles |-> ZeroVec],
     sizes |-> [i \in 1 .. maxParticles |-> 0],
     lives |-> [i \in 1 .. maxParticles |-> SmokeDead],
     rotations |-> [i \in 1 .. maxParticles |-> 0],
     spawnAccumulator |-> 0,
     elapsedTime |-> 0,
     uTime |-> 0,
     uOpacity |-> Milli]

SmokeConstructed == SmokePool(SmokeCount)

\* The particle spawnParticle initialises, from the draw d.  lifeSpeed is
\* 1 / lifetime, in thousandths per second.
SmokeFresh(d) ==
    LET lifetime == SmokeMinLifetime + Rand(d.u, SmokeMaxLifetime - SmokeMinLifetime)
        radius == Rand(d.u, SmokeSpawnRadius)
        speed == 300 + Rand(d.u, 300)
        jitter == ((Rand(d.u, Milli) - 500) * 100) \div Milli
    IN  [active |-> TRUE,
         life |-> 0,
         lifeSpeed |-> (Milli * TicksPerSecond) \div lifetime,
         position |-> Vec(Cos(d.q) * radius, SmokeSpawnHeight, Sin(d.q) * radius),
         velocity |-> Vec(jitter, speed, jitter),
         size |-> (SmokeBaseSize * (800 + Rand(d.u, 400))) \div Milli,
         rotation |-> Rand(d.u, 6283),
         rotationSpeed |-> (10 + Rand(d.u, 20)) * (IF 2 * d.u > RandDen THEN 1 ELSE 0 - 1)]

\* SmokeSystem.spawnParticle.
SmokeSpawnParticle(s, seed) ==
    LET i == FindInactive(s.particles)
    IN  IF i = 0 THEN s
        ELSE [s EXCEPT !.particles[i] = SmokeFresh(Draw(seed))]

\* The spawn loop of SmokeSystem.update.
RECURSIVE SmokeSpawnLoop(_, _, _)
SmokeSpawnLoop(s, seed, calls) ==
    IF s.spawnAccumulator >= TicksPerSecond
    THEN SmokeSpawnLoop(
            [SmokeSpawnParticle(s, seed) EXCEPT
                !.spawnAccumulator = s.spawnAccumulator - TicksPerSecond],
            NextSeed(seed), calls + 1)
    ELSE [sys |-> s, calls |-> calls]

\* SmokeSystem.noise3D at arguments given in quarter turns.
SmokeNoise3D(x, y, z) == Sin(x + y) * 300 + Sin(y + z) * 300 + Sin(z + x) * 400

\* The time step SmokeSystem.update integrates with: deltaTime itself.
SmokeStep(deltaTime) == deltaTime

\* particle.life += particle.lifeSpeed * deltaTime
SmokeLife(p, dt) == p.life + (p.lifeSpeed * dt) \div TicksPerSecond

\* The body of the particle loop of update for an active particle that stays
\* alive: turbulence, wind, slow-down, position, rotation.
SmokeMoved(p, dt, elapsedTime, wave) ==
    LET noiseX == SmokeNoise3D(wave, elapsedTime, 0)
        noiseZ == SmokeNoise3D(0, elapsedTime, wave)
        vx == p.velocity.x
                + (((noiseX * SmokeTurbulence) \div Milli) * dt) \div TicksPerSecond
                + (SmokeWind.x * dt * 500) \div (TicksPerSecond * Milli)
        vy == ((p.velocity.y + (SmokeWind.y * dt * 500) \div (TicksPerSecond * Milli)) * 995)
                \div Milli
        vz == p.velocity.z
                + (((noiseZ * SmokeTurbulence) \div Milli) * dt) \div TicksPerSecond
                + (SmokeWind.z * dt * 500) \div (TicksPerSecond * Milli)
    IN  [p EXCEPT !.life = SmokeLife(p, dt),
                  !.velocity = Vec(vx, vy, vz),
                  !.position = Vec(p.position.x + (vx * dt) \div TicksPerSecond,
                                   p.position.y + (vy * dt) \div TicksPerSecond,
                                   p.position.z + (vz * dt) \div TicksPerSecond),
                  !.rotation = p.rotation + p.rotationSpeed]

\* The particle loop with the death check `particle.life > 1`.
SmokeParticleAfterLate(p, dt, elapsedTime, wave) ==
    IF ~p.active THEN p
    ELSE IF SmokeLife(p, dt) > SmokeDead
         THEN [p EXCEPT !.life = SmokeLife(p, dt), !.active = FALSE]
         ELSE SmokeMoved(p, dt, elapsedTime, wave)

\* The particle loop of update, for one slot: the particle afterwards.
SmokeParticleAfter(p, dt, elapsedTime, wave) ==
    IF ~p.active THEN p
    ELSE IF SmokeLife(p, dt) >= SmokeDead
         THEN [p EXCEPT !.life = SmokeLife(p, dt), !.active = FALSE]
         ELSE SmokeMoved(p, dt, elapsedTime, wave)

\* What the particle loop leaves in lives[i] for a slot holding p afterwards.
SmokeLifeOut(p, old) == IF p.active THEN p.life ELSE SmokeDead

\* SmokeSystem.update(deltaTime).
SmokeUpdated(s, deltaTime, seed, wave) ==
    LET dt == SmokeStep(deltaTime)
        elapsed == s.elapsedTime + deltaTime
        spawned == SmokeSpawnLoop(
            [s EXCEPT !.elapsedTime = elapsed,
                      !.uTime = elapsed,
                      !.spawnAccumulator = s.spawnAccumulator + deltaTime * SmokeSpawnRate],
            seed, 0)
        t == spawned.sys
        n == Len(t.particles)
        after == [i \in 1 .. n |-> SmokeParticleAfter(t.particles[i], dt, elapsed, wave)]
    IN  [sys |->
            [t EXCEPT
                !.particles = after,
                !.positions = [i \in DOMAIN t.positions |->
                    IF after[i].active THEN after[i].position ELSE t.positions[i]],
                !.sizes = [i \in DOMAIN t.sizes |->
                    IF after[i].active THEN after[i].size ELSE t.sizes[i]],
                !.lives = [i \in DOMAIN t.lives |->
                    SmokeLifeOut(after[i], t.lives[i])],
                !.rotations = [i \in DOMAIN t.rotations |->
                    IF after[i].active THEN after[i].rotation ELSE t.rotations[i]]],
         calls |-> spawned.calls]

\* SmokeSystem.setOpacity(opacity)
SmokeOpacitySet(s, opacity) == [s EXCEPT !.uOpacity = Max(0, Min(Milli, opacity))]

\* SmokeSystem.getActiveCount()
SmokeActiveCount(s) == ActiveCount(s.particles)

\* ========================================================== AnimationLoop
\* An AnimationLoop object together with the browser's list of requested
\* animation frames.  updateCallbacks is the Set in insertion order; an
\* entry deleted while a tick iterates the Set is left as a hole (0) so
\* that the entries after it keep their place, and a value added is
\* appended, which is how the iteration of a Set sees both.  A frame id of
\* 0 is the null of animationFrameId.  Callbacks are numbered from 1.
Callbacks == 1 .. NumCallbacks

\* what a caller-supplied update callback may do when it is invoked
Behaviours == {"return", "throw", "stop", "add", "remove", "dispose"}

\* what the render callback may do
RenderBehaviours == {"return", "throw"}

\* the callback that callback c registers or unregisters when it does so
Other(c) == (c % NumCallbacks) + 1

\* new AnimationLoop({onUpdate, onRender})
LoopConstructed(onUpdate, onRender) ==
    [isRunning |-> FALSE,
     animationFrameId |-> 0,
     updateCallbacks |-> IF onUpdate = 0 THEN <<>> ELSE <<onUpdate>>,
     renderCallback |-> onRender,
     requested |-> {},
     nextFrameId |-> 1]

\* addUpdateCallback(callback): Set.add
LoopAddUpdateCallback(l, callback) ==
    IF \E i \in DOMAIN l.updateCallbacks : l.updateCallbacks[i] = callback
    THEN l
    ELSE [l EXCEPT !.updateCallbacks = Append(@, callback)]

\* removeUpdateCallback(callback): Set.delete
LoopRemoveUpdateCallback(l, callback) ==
    [l EXCEPT !.updateCallbacks =
        [i \in DOMAIN @ |-> IF @[i] = callback THEN 0 ELSE @[i]]]

\* stop() leaving the requested frame in place
LoopStopKeeping(l) ==
    IF ~l.isRunning THEN l
    ELSE [l EXCEPT !.isRunning = FALSE, !.animationFrameId = 0]

\* stop()
LoopStop(l) ==
    IF ~l.isRunning THEN l
    ELSE IF l.animationFrameId # 0
         THEN [l EXCEPT !.isRunning = FALSE,
                        !.requested = @ \ {l.animationFrameId},
                        !.animationFrameId = 0]
         ELSE [l EXCEPT !.isRunning = FALSE]

\* dispose(): stop(), then updateCallbacks.clear()
LoopDispose(l) ==
    [LoopStop(l) EXCEPT !.updateCallbacks = [i \in DOMAIN @ |-> 0]]

\* the values in the Set
Registered(l) == {l.updateCallbacks[i] : i \in DOMAIN l.updateCallbacks} \ {0}

\* the Set once no iteration is in progress: the holes are gone
Settled(l) == [l EXCEPT !.updateCallbacks = SelectSeq(@, LAMBDA v : v # 0)]

\* the body of one update callback: what it does to the loop it is
\* registered with.  r is the tick so far.
CallbackEffect(r, callback, effect) ==
    CASE effect = "stop" -> [r EXCEPT !.loop = LoopStop(@)]
      [] effect = "add" -> [r EXCEPT !.loop = LoopAddUpdateCallback(@, Other(callback))]
      [] effect = "remove" ->
            [r EXCEPT !.loop = LoopRemoveUpdateCallback(@, Other(callback)),
                      !.unregistered = @ \/ Other(callback) \in Registered(r.loop)]
      [] effect = "dispose" ->
            [r EXCEPT !.loop = LoopDispose(@),
                      !.unregistered = @ \/ Registered(r.loop) # {}]
      [] OTHER -> r

\* for (const callback of this.updateCallbacks) callback(...), from
\* position i of the Set on; a callback that throws ends the tick.
RECURSIVE RunUpdateCallbacks(_, _, _)
RunUpdateCallbacks(r, i, does) ==
    IF i > Len(r.loop.updateCallbacks) THEN r
    ELSE LET callback == r.loop.updateCallbacks[i]
             called == [r EXCEPT !.updates = Append(@, callback),
                                 !.afterStop = IF r.loop.isRunning THEN @ ELSE @ + 1]
         IN  IF callback = 0 THEN RunUpdateCallbacks(r, i + 1, does)
             ELSE IF does[callback] = "throw" THEN [called EXCEPT !.threw = TRUE]
             ELSE RunUpdateCallbacks(
                      CallbackEffect(called, callback, does[callback]), i + 1, does)

\* a call of loop that returns at once
NotTicked(l) ==
    [loop |-> l, ran |-> FALSE, registered |-> {}, updates |-> <<>>,
     renders |-> 0, renderedAfter |-> 0, threw |-> FALSE, unregistered |-> FALSE,
     afterStop |-> 0]

\* mutant: the render callback invoked before the update callbacks
LoopTickRenderFirst(l, does, renderDoes) ==
    IF ~l.isRunning THEN NotTicked(l)
    ELSE LET next == [l EXCEPT !.animationFrameId = l.nextFrameId,
                               !.requested = @ \cup {l.nextFrameId},
                               !.nextFrameId = @ + 1]
         IN  RunUpdateCallbacks(
                 [NotTicked(next) EXCEPT !.ran = TRUE,
                                         !.registered = Registered(l),
                                         !.renders = IF l.renderCallback THEN 1 ELSE 0],
                 1, does)

\* loop(): one tick.  The next frame is requested before any callback is
\* invoked.  The result is the loop afterwards with what the tick did:
\* the update callbacks invoked in order, the number of render calls, the
\* number of update invocations completed when render was invoked, whether
\* an exception left loop, whether a callback was unregistered meanwhile,
\* the number of callbacks invoked while isRunning was already false.
LoopTick(l, does, renderDoes) ==
    IF ~l.isRunning THEN NotTicked(l)
    ELSE LET next == [l EXCEPT !.animationFrameId = l.nextFrameId,
                               !.requested = @ \cup {l.nextFrameId},
                               !.nextFrameId = @ + 1]
             updated == RunUpdateCallbacks(
                            [NotTicked(next) EXCEPT !.ran = TRUE,
                                                    !.registered = Registered(l)],
                            1, does)
         IN  IF updated.threw \/ ~updated.loop.renderCallback THEN updated
             ELSE [updated EXCEPT !.renders = @ + 1,
                                  !.renderedAfter = Len(updated.updates),
                                  !.threw = (renderDoes = "throw"),
                                  !.afterStop = IF updated.loop.isRunning
                                                THEN @ ELSE @ + 1]

\* start(): loop() is called synchronously
LoopStart(l, does, renderDoes) ==
    IF l.isRunning THEN NotTicked(l)
    ELSE LoopTick([l EXCEPT !.isRunning = TRUE], does, renderDoes)

\* ================================================================ main.ts
\* The page: init, the start-up script, the start timer and the
\* beforeunload handler.  An object that owns a geometry and a material is
\* named <<name, index>>.  LogGenerator (createTeepee, disposeTeepee) is
\* not among the sources: the teepee appears as a construction and as a
\* dispose call, and the resources of its logs are not tracked.
Rocks == {<<"rock", i>> : i \in 1 .. RockCount}

\* the objects that are THREE.Mesh
Meshes ==
    {<<"ground", 0>>, <<"firePit", 0>>, <<"gradientSky", 0>>,
     <<"primaryFire", 0>>, <<"secondaryFire", 0>>} \cup Rocks

\* the objects that are THREE.Points
PointClouds == {<<"embers", 0>>, <<"smoke", 0>>, <<"starField", 0>>}

\* every owned GPU resource
Resources == (Meshes \cup PointClouds) \X {"geometry", "material"}

\* what init constructs, in order
Constructions ==
    <<"sceneManager", "cameraControls", "animationLoop", "gradientSky",
      "starField", "lighting", "ground", "firePit", "rockRing", "teepee",
      "fire", "embers", "smoke">>

\* the page before its script runs
PageFresh(container) ==
    [container |-> container,
     loaded |-> FALSE,
     threw |-> FALSE,
     app |-> FALSE,
     constructed |-> <<>>,
     timer |-> FALSE,
     unloading |-> FALSE,
     starts |-> 0,
     attached |-> {},
     disposals |-> [r \in Resources |-> 0],
     order |-> <<>>]

\* mutant: the container is looked up after the SceneManager is built
PageInitLate(p) ==
    IF ~p.container
    THEN [p EXCEPT !.threw = TRUE, !.constructed = SubSeq(Constructions, 1, 1)]
    ELSE [p EXCEPT !.constructed = Constructions,
                   !.attached = (Meshes \cup PointClouds) \ {<<"secondaryFire", 0>>}]

\* init(): throws when #app is missing, else constructs everything and
\* adds to the scene all but the secondary fire mesh
PageInit(p) ==
    IF ~p.container
    THEN [p EXCEPT !.threw = TRUE]
    ELSE [p EXCEPT !.constructed = Constructions,
                   !.attached = (Meshes \cup PointClouds) \ {<<"secondaryFire", 0>>}]

\* the start-up script: try { app = init(); setTimeout(...) } catch
PageLoaded(p) ==
    LET built == PageInit(p)
    IN  IF built.threw
        THEN [built EXCEPT !.loaded = TRUE]
        ELSE [built EXCEPT !.loaded = TRUE, !.app = TRUE, !.timer = TRUE]

\* one dispose call: it is logged, and it calls dispose() on the geometry
\* and on the material of each of the owners
DisposeOf(p, call, owners) ==
    [p EXCEPT !.order = Append(@, call),
              !.disposals = [r \in DOMAIN @ |->
                                IF r[1] \in owners THEN @[r] + 1 ELSE @[r]]]

\* disposeRockRing(group): the meshes of the group, then group.clear()
DisposeRockRing(p) ==
    [DisposeOf(p, "rockRing", p.attached \cap Rocks) EXCEPT !.attached = @ \ Rocks]

\* disposeGround(mesh)
DisposeGround(p, mesh) == DisposeOf(p, mesh[1], {mesh})

\* Fire.dispose(): both layers
FireDispose(p) == DisposeOf(p, "fire", {<<"primaryFire", 0>>, <<"secondaryFire", 0>>})

\* dispose() of EmberSystem, SmokeSystem, GradientSky and StarField: the
\* geometry and the material of the one object
ComponentDispose(p, name) == DisposeOf(p, name, {<<name, 0>>})

\* SceneManager.dispose(): every Mesh the traversal of the scene reaches
\* has its geometry and its material disposed, then scene.clear()
SceneManagerDispose(p) ==
    [DisposeOf(p, "sceneManager", p.attached \cap Meshes) EXCEPT !.attached = {}]

\* the beforeunload handler on page p whose animation loop is l; the calls
\* without tracked resources (disposeTeepee, Lighting.dispose,
\* AnimationLoop.dispose, CameraControls.dispose) are logged in their place
Teardown(p, l) ==
    IF ~p.app THEN [page |-> p, loop |-> l]
    ELSE LET rocks == DisposeRockRing(p)
             teepee == DisposeOf(rocks, "teepee", {})
             ground == DisposeGround(teepee, <<"ground", 0>>)
             firePit == DisposeGround(ground, <<"firePit", 0>>)
             fire == FireDispose(firePit)
             embers == ComponentDispose(fire, "embers")
             smokes == ComponentDispose(embers, "smoke")
             lighting == DisposeOf(smokes, "lighting", {})
             sky == ComponentDispose(lighting, "gradientSky")
             stars == ComponentDispose(sky, "starField")
             animation == DisposeOf(stars, "animationLoop", {})
             controls == DisposeOf(animation, "cameraControls", {})
             scene == SceneManagerDispose(controls)
         IN  [page |-> [scene EXCEPT !.app = FALSE], loop |-> LoopDispose(l)]

\* ================================================================ noise.ts
\* The module-level tables perm and gradP, seed, and the noise functions.
\* Coordinates and noise values are in thousandths, rounded down.  A
\* result is a record: nan tells that it is NaN, value is the number
\* otherwise, samples are the noise3D values it was computed from.
Multiplier == 16807
Modulus == 2147483647
TableSize == 256

\* grad3
Grad3 ==
    << <<1, 1, 0>>, <<0 - 1, 1, 0>>, <<1, 0 - 1, 0>>, <<0 - 1, 0 - 1, 0>>,
       <<1, 0, 1>>, <<0 - 1, 0, 1>>, <<1, 0, 0 - 1>>, <<0 - 1, 0, 0 - 1>>,
       <<0, 1, 1>>, <<0, 0 - 1, 1>>, <<0, 1, 0 - 1>>, <<0, 0 - 1, 0 - 1>> >>

\* a % n of JavaScript for n > 0: the sign is the dividend's
JsRem(a, n) == IF a < 0 THEN 0 - ((0 - a) % n) ELSE a % n

\* (s * 16807) % 2147483647 as JavaScript computes it for |s| < 2^31, where
\* the product is exact.  The product is not formed: with q the quotient
\* and r the remainder of the modulus by the multiplier, the remainder of
\* 16807 * a is 16807 * (a % q) - r * (a / q), plus the modulus if negative.
Lehmer(s) ==
    LET a == Abs(s) % Modulus
        q == Modulus \div Multiplier
        r == Modulus % Multiplier
        t == Multiplier * (a % q) - r * (a \div q)
        m == IF t < 0 THEN t + Modulus ELSE t
    IN  IF s < 0 THEN 0 - m ELSE m

\* one iteration of the Fisher-Yates loop of seed; a holds the Uint8Array
\* p, the generator's state s and the loop index i.  A negative j is no
\* index of a typed array: p[j] reads undefined, which is stored into p[i]
\* as 0, and the store to p[j] has no effect.
ShuffleStep(a) ==
    LET next == Lehmer(a.s)
        j == JsRem(next, a.i + 1)
    IN  [p |-> IF j < 0 THEN [a.p EXCEPT ![a.i] = 0]
               ELSE [a.p EXCEPT ![a.i] = a.p[j], ![j] = a.p[a.i]],
         s |-> next,
         i |-> a.i - 1]

\* n iterations of the loop, or as many as its condition i > 0 lets run
RECURSIVE Shuffled(_, _)
Shuffled(a, n) ==
    IF a.i <= 0 \/ n = 0 THEN a
    ELSE IF n = 1 THEN ShuffleStep(a)
    ELSE Shuffled(Shuffled(a, n \div 2), n - n \div 2)

\* perm and gradP as the module creates them, before the first seed call
Unseeded ==
    [perm |-> [i \in 0 .. (2 * TableSize - 1) |-> 0],
     gradP |-> [i \in 0 .. (2 * TableSize - 1) |-> <<0, 0, 0>>]]

\* the tables filled from the shuffled array p
Extended(tables, p) ==
    LET perm == [i \in DOMAIN tables.perm |-> p[i % TableSize]]
    IN  [perm |-> perm,
         gradP |-> [i \in DOMAIN tables.gradP |-> Grad3[(perm[i] % 12) + 1]]]

\* seed(seedValue)
Seeded(tables, seedValue) ==
    Extended(tables,
             Shuffled([p |-> [i \in 0 .. (TableSize - 1) |-> i],
                       s |-> seedValue, i |-> TableSize - 1], TableSize).p)

\* the contribution of one simplex corner: g is its gradient
Corner(g, x, y, z) ==
    LET t == (6 * Milli) \div 10 - (x * x + y * y + z * z) \div Milli
        t2 == (t * t) \div Milli
    IN  IF t < 0 THEN 0
        ELSE (((t2 * t2) \div Milli) * (g[1] * x + g[2] * y + g[3] * z)) \div Milli

\* noise3D(x, y, z): reads perm and gradP
Noise3D(tables, x, y, z) ==
    LET F3 == Milli \div 3
        G3 == Milli \div 6
        s == ((x + y + z) * F3) \div Milli
        i == (x + s) \div Milli
        j == (y + s) \div Milli
        k == (z + s) \div Milli
        t == (i + j + k) * G3
        x0 == x - (i * Milli - t)
        y0 == y - (j * Milli - t)
        z0 == z - (k * Milli - t)
        \* <<i1, j1, k1, i2, j2, k2>>
        o == IF x0 >= y0
             THEN IF y0 >= z0 THEN <<1, 0, 0, 1, 1, 0>>
                  ELSE IF x0 >= z0 THEN <<1, 0, 0, 1, 0, 1>>
                  ELSE <<0, 0, 1, 1, 0, 1>>
             ELSE IF y0 < z0 THEN <<0, 0, 1, 0, 1, 1>>
                  ELSE IF x0 < z0 THEN <<0, 1, 0, 0, 1, 1>>
                  ELSE <<0, 1, 0, 1, 1, 0>>
        ii == i % TableSize
        jj == j % TableSize
        kk == k % TableSize
        perm == tables.perm
        gradP == tables.gradP
        n0 == Corner(gradP[ii + perm[jj + perm[kk]]], x0, y0, z0)
        n1 == Corner(gradP[ii + o[1] + perm[jj + o[2] + perm[kk + o[3]]]],
                     x0 - o[1] * Milli + G3, y0 - o[2] * Milli + G3,
                     z0 - o[3] * Milli + G3)
        n2 == Corner(gradP[ii + o[4] + perm[jj + o[5] + perm[kk + o[6]]]],
                     x0 - o[4] * Milli + 2 * G3, y0 - o[5] * Milli + 2 * G3,
                     z0 - o[6] * Milli + 2 * G3)
        n3 == Corner(gradP[ii + 1 + perm[jj + 1 + perm[kk + 1]]],
                     x0 - Milli + 3 * G3, y0 - Milli + 3 * G3, z0 - Milli + 3 * G3)
    IN  32 * (n0 + n1 + n2 + n3)

\* a result that is a number
Number(value, samples) == [nan |-> FALSE, value |-> value, samples |-> samples]

\* noise2D(x, y)
Noise2D(tables, x, y) == Noise3D(tables, x, y, 0)

\* one octave of fbm3D: a holds value, amplitude, frequency, maxValue and
\* the samples taken, sample is the value of noise3D
FbmOctave(a, sample, lacunarity, persistence) ==
    [value |-> a.value + (a.amplitude * sample) \div Milli,
     maxValue |-> a.maxValue + a.amplitude,
     amplitude |-> (a.amplitude * persistence) \div Milli,
     frequency |-> (a.frequency * lacunarity) \div Milli,
     samples |-> a.samples \cup {sample}]

\* the loop of fbm3D from octave i on, and after it return value /
\* maxValue, which is 0 / 0 = NaN when the loop never ran
RECURSIVE FbmLoop(_, _, _, _, _, _, _, _, _)
FbmLoop(tables, x, y, z, octaves, lacunarity, persistence, i, a) ==
    IF i >= octaves
    THEN IF a.maxValue = 0
         THEN [nan |-> TRUE, value |-> 0, samples |-> a.samples]
         ELSE Number((a.value * Milli) \div a.maxValue, a.samples)
    ELSE FbmLoop(tables, x, y, z, octaves, lacunarity, persistence, i + 1,
                 FbmOctave(a, Noise3D(tables, (x * a.frequency) \div Milli,
                                      (y * a.frequency) \div Milli,
                                      (z * a.frequency) \div Milli),
                           lacunarity, persistence))

\* fbm3D(x, y, z, octaves, lacunarity, persistence)
Fbm3D(tables, x, y, z, octaves, lacunarity, persistence) ==
    FbmLoop(tables, x, y, z, octaves, lacunarity, persistence, 0,
            [value |-> 0, maxValue |-> 0, amplitude |-> Milli,
             frequency |-> Milli, samples |-> {}])

\* fbm2D(x, y, octaves, lacunarity, persistence)
Fbm2D(tables, x, y, octaves, lacunarity, persistence) ==
    Fbm3D(tables, x, y, 0, octaves, lacunarity, persistence)

\* one octave of ridgedNoise3D: sample is the value of noise3D
RidgedOctave(a, sample) ==
    LET ridge == Milli - Abs(sample)
        signal == (((ridge * ridge) \div Milli) * a.weight) \div Milli
    IN  [value |-> a.value + (signal * a.amplitude) \div Milli,
         weight |-> Min(Max(signal * 2, 0), Milli),
         amplitude |-> a.amplitude \div 2,
         frequency |-> a.frequency * 2,
         samples |-> a.samples \cup {sample}]

\* the loop of ridgedNoise3D from octave i on, and after it return value
RECURSIVE RidgedLoop(_, _, _, _, _, _, _)
RidgedLoop(tables, x, y, z, octaves, i, a) ==
    IF i >= octaves THEN Number(a.value, a.samples)
    ELSE RidgedLoop(tables, x, y, z, octaves, i + 1,
                    RidgedOctave(a, Noise3D(tables, (x * a.frequency) \div Milli,
                                            (y * a.frequency) \div Milli,
                                            (z * a.frequency) \div Milli)))

\* ridgedNoise3D(x, y, z, octaves)
RidgedNoise3D(tables, x, y, z, octaves) ==
    RidgedLoop(tables, x, y, z, octaves, 0,
               [value |-> 0, weight |-> Milli, amplitude |-> Milli,
                frequency |-> Milli, samples |-> {}])

\* ======================================================= RockGenerator.ts
\* Lengths, scales and angles are in thousandths, rounded down.  A value
\* of seededRandom is kept as its numerator randomSeed - 1 over the
\* denominator 2147483646; an optional seed is the set of its values,
\* empty when the option is absent.
TwoPi == 6283

\* a * k = q * (Modulus - 1) + r for 0 <= a < Modulus - 1 and k >= 0, by
\* doubling, without forming the product
RECURSIVE Times(_, _)
Times(a, k) ==
    IF k = 0 THEN [q |-> 0, r |-> 0]
    ELSE LET den == Modulus - 1
             h == Times(a, k \div 2)
             d == IF h.r >= den - h.r
                  THEN [q |-> 2 * h.q + 1, r |-> h.r - (den - h.r)]
                  ELSE [q |-> 2 * h.q, r |-> 2 * h.r]
         IN  IF k % 2 = 0 THEN d
             ELSE IF d.r >= den - a
                  THEN [q |-> d.q + 1, r |-> d.r - (den - a)]
                  ELSE [q |-> d.q, r |-> d.r + a]

\* Math.floor(seededRandom() * k) for the value of numerator num
Scaled(num, k) ==
    LET den == Modulus - 1
        t == Times(Abs(num) % den, k)
        q == (Abs(num) \div den) * k + t.q
    IN  IF num >= 0 THEN q
        ELSE 0 - (q + (IF t.r > 0 THEN 1 ELSE 0))

\* the states randomSeed goes through in n calls of seededRandom
RECURSIVE RandomSeeds(_, _)
RandomSeeds(randomSeed, n) ==
    IF n = 0 THEN <<>>
    ELSE <<Lehmer(randomSeed)>> \o RandomSeeds(Lehmer(randomSeed), n - 1)

\* directions of vertices of the icosahedron, of length 1
Normals == << <<0, 526, 851>>, <<526, 851, 0>>, <<0 - 851, 0, 526>> >>

\* the vertex loop of createRockGeometry: every vertex is displaced along
\* its normal by fbm3D (4 octaves, the defaults of fbm3D) and scaled
Displaced(tables, opts) ==
    [n \in DOMAIN Normals |->
        LET normal == Normals[n]
            vertex == [c \in 1 .. 3 |-> (normal[c] * opts.radius) \div Milli]
            noiseValue == Fbm3D(tables,
                                (vertex[1] * opts.noiseFrequency) \div Milli,
                                (vertex[2] * opts.noiseFrequency) \div Milli,
                                (vertex[3] * opts.noiseFrequency) \div Milli,
                                4, 2 * Milli, Milli \div 2).value
            displacement ==
                (((noiseValue * opts.noiseAmplitude) \div Milli) * opts.radius)
                    \div Milli
        IN  [c \in 1 .. 3 |->
                ((vertex[c] + (normal[c] * displacement) \div Milli)
                    * opts.scaleVariation[c]) \div Milli]]

\* the tables together with the vertex positions computed from them
Geometry(tables, opts) == [tables |-> tables, positions |-> Displaced(tables, opts)]

\* createRockGeometry(options): seed(options.seed) when a seed is given,
\* then the vertex loop.  The result is the tables afterwards and the
\* vertex positions.
RockGeometry(tables, opts) ==
    Geometry(IF opts.seed = {} THEN tables
             ELSE Seeded(tables, CHOOSE v \in opts.seed : TRUE),
             opts)

\* a after one more rock: value are the twelve values seededRandom
\* returned for it, scaled the values multiplied by their factors, and
\* geometry what createRockGeometry returned
Placed(options, i, a, value, scaled, geometry) ==
    LET slot == TwoPi \div options.count
        angle == (i * TwoPi) \div options.count
                     + ((scaled[1] - Milli \div 2) * slot) \div (2 * Milli)
    IN  [tables |-> geometry.tables,
         rocks |-> Append(a.rocks,
             [angle |-> angle,
              radius |-> options.innerRadius + scaled[2],
              scale |-> options.minScale + scaled[3],
              rotation |-> <<scaled[10], scaled[11], scaled[12]>>,
              positions |-> geometry.positions]),
         values |-> a.values \cup {value[n] : n \in DOMAIN value}]

\* the rock made from the scaled values: createRock with a seed of its own
Rock(tables, scaled) ==
    RockGeometry(tables,
        [radius |-> Milli \div 4,
         noiseFrequency |-> 2500 + scaled[4],
         noiseAmplitude |-> 250 + scaled[5],
         seed |-> {scaled[6]},
         scaleVariation |-> <<800 + scaled[7], 600 + scaled[8], 800 + scaled[9]>>])

\* the factors the twelve values of seededRandom of a rock are multiplied
\* by: angle offset, radius, scale, noiseFrequency, noiseAmplitude, seed,
\* scaleVariation x y z, rotation x y z
Factors(options) ==
    <<Milli, options.outerRadius - options.innerRadius,
      options.maxScale - options.minScale, 1500, 150, Milli * Milli,
      400, 400, 400, TwoPi, TwoPi, TwoPi>>

\* one pass of the loop of createRockRing: value are the twelve values of
\* seededRandom
RockPlaced(options, i, a, value, scaled) ==
    Placed(options, i, a, value, scaled, Rock(a.tables, scaled))

\* the values multiplied by their factors, rounded down
AllScaled(value, factor) == [n \in DOMAIN value |-> Scaled(value[n], factor[n])]

\* the twelve values seededRandom returns for rock i
Values(drawn, i) == [n \in 1 .. 12 |-> drawn[12 * i + n] - 1]

\* the loop of createRockRing from rock i on; a holds the tables, the
\* rocks made so far and the values seededRandom returned, drawn is the
\* sequence of the states of randomSeed
RECURSIVE RockRingLoop(_, _, _, _)
RockRingLoop(options, drawn, i, a) ==
    IF i >= options.count THEN a
    ELSE RockRingLoop(options, drawn, i + 1,
             RockPlaced(options, i, a, Values(drawn, i),
                        AllScaled(Values(drawn, i), Factors(options))))

\* mutant: seededRandom starts from the clock whatever the options
RockRingClocked(tables, options, now) ==
    RockRingLoop(options, RandomSeeds(now, 12 * options.count), 0,
                 [tables |-> IF options.seed = {} THEN tables
                             ELSE Seeded(tables, CHOOSE v \in options.seed : TRUE),
                  rocks |-> <<>>, values |-> {}])

\* createRockRing(options), Date.now() returning now: the tables
\* afterwards, the rocks, and the values seededRandom returned
RockRing(tables, options, now) ==
    LET given == options.seed # {}
        randomSeed == IF given THEN CHOOSE v \in options.seed : TRUE ELSE now
    IN  RockRingLoop(options, RandomSeeds(randomSeed, 12 * options.count), 0,
                     [tables |-> IF given THEN Seeded(tables, randomSeed) ELSE tables,
                      rocks |-> <<>>, values |-> {}])

\* ================================================================ Lighting
\* The fire point light of Lighting.  Times are in thousandths of a second
\* (one tick of deltaTime is Milli / TicksPerSecond of them), intensities,
\* lengths and the HSL components in thousandths, angles in thousandths of
\* a radian.
Pi == 3142

\* Math.sin(x): Bhaskara's rational approximation on each half turn, which
\* is exact at the zeros and at the peaks and within 2 thousandths between
SinMilli(x) ==
    LET r == x % (2 * Pi)
        y == IF r <= Pi THEN r ELSE r - Pi
        p == y * (Pi - y)
        half == (16 * p * 10) \div ((5 * Pi * Pi - 4 * p) \div 100)
    IN  IF r <= Pi THEN half ELSE 0 - half

\* DEFAULT_CONFIG.fireLight, which is also the configuration of main.ts
DefaultFireLight ==
    [baseIntensity |-> 2500, intensityVariation |-> Milli,
     position |-> Vec(0, Milli, 0), positionOffsetMax |-> 50]

\* the fireLight configurations a caller constructs a Lighting with: the
\* default, and a dim light with a wide flicker
FireLightConfigs ==
    {DefaultFireLight,
     [DefaultFireLight EXCEPT !.baseIntensity = 800, !.intensityVariation = 1500]}

\* new Lighting(config): the point light starts at baseIntensity with the
\* configured colour 0xff6622 (as hue, saturation, lightness)
LightingConstructed(fireLight) ==
    [config |-> fireLight,
     noiseTime |-> 0,
     intensity |-> fireLight.baseIntensity,
     hsl |-> <<51, Milli, 567>>,
     position |-> fireLight.position]

\* noise(t): five sine waves whose amplitudes sum to 1
LightingNoise(t) ==
    (SinMilli(8 * t) * 300 + SinMilli(13 * t) * 250 + SinMilli(21 * t) * 200
        + SinMilli(34 * t) * 150 + SinMilli(55 * t) * 100) \div Milli

\* Lighting.update(deltaTime), deltaTime in ticks
LightingUpdated(l, deltaTime) ==
    LET t == l.noiseTime + deltaTime * (Milli \div TicksPerSecond)
        intensityNoise == LightingNoise(t)
        intensity == l.config.baseIntensity
                        + (intensityNoise * l.config.intensityVariation) \div Milli
        offsetX == (LightingNoise((t * 13) \div 10) * l.config.positionOffsetMax) \div Milli
        offsetZ == (LightingNoise((t * 17) \div 10 + 100 * Milli)
                        * l.config.positionOffsetMax) \div Milli
        offsetY == (LightingNoise((t * 9) \div 10 + 200 * Milli)
                        * l.config.positionOffsetMax) \div (2 * Milli)
    IN  [l EXCEPT !.noiseTime = t,
                  !.intensity = Max(500, intensity),
                  !.hsl = <<60 + (intensityNoise * 20) \div Milli,
                            950 + (intensityNoise * 50) \div Milli,
                            500 + (intensityNoise * 50) \div Milli>>,
                  !.position = Vec(l.config.position.x + offsetX,
                                   l.config.position.y + offsetY,
                                   l.config.position.z + offsetZ)]

\* Lighting.setFireIntensity(multiplier): the multiplier is clamped to
\* [0, 2] and the product is stored as it is
LightingFireIntensitySet(l, multiplier) ==
    LET clamped == Max(0, Min(2 * Milli, multiplier))
    IN  [l EXCEPT !.intensity = (l.config.baseIntensity * clamped) \div Milli]

\* ==================================================================== Fire
\* The Fire object: its group's children and the uniforms of its two
\* shader materials.  Times are in thousandths of a second.

\* createFireMesh(intensityMultiplier, timeOffset): the uniforms of the
\* material it builds
FireCreateFireMesh(config, intensityMultiplier, timeOffset) ==
    [uTime |-> timeOffset,
     uIntensity |-> (config.intensity * intensityMultiplier) \div Milli]

\* new Fire(config): both layers are built, the primary one is added to
\* the group; the line that adds the secondary one is commented out
FireConstructed(config) ==
    [config |-> config,
     primaryMaterial |-> FireCreateFireMesh(config, Milli, 0),
     secondaryMaterial |-> FireCreateFireMesh(config, 750, Pi),
     group |-> <<"primaryFire">>]

\* Fire.update(deltaTime), deltaTime in ticks
FireUpdated(f, deltaTime) ==
    [f EXCEPT !.primaryMaterial.uTime = @ + deltaTime * (Milli \div TicksPerSecond),
              !.secondaryMaterial.uTime = @ + deltaTime * (Milli \div TicksPerSecond)]

\* Fire.setIntensity(intensity)
FireIntensitySet(f, intensity) ==
    LET clamped == Max(0, Min(Milli, intensity))
    IN  [f EXCEPT !.primaryMaterial.uIntensity = clamped,
                  !.secondaryMaterial.uIntensity = (clamped * 750) \div Milli]

\* Fire.getObject(): the children of the group it returns
FireObject(f) == f.group

\* ============================================================ SceneManager
\* The static SceneManager.instance (0 is null) and every SceneManager
\* constructed so far, each with the number of dispose() calls made on it,
\* together with the resize listeners registered on the window.

\* no SceneManager yet
NoManager ==
    [instance |-> 0, made |-> <<>>, listeners |-> {}, returned |-> 0, threw |-> FALSE]

\* new SceneManager(options): a renderer, its canvas in the container, a
\* resize listener
ManagerConstructed(options) ==
    [postProcessing |-> options.enablePostProcessing, disposed |-> 0, canvas |-> TRUE,
     resized |-> 0]

\* SceneManager.init(options)
SceneManagerInit(m, options) ==
    IF m.instance = 0
    THEN LET id == Len(m.made) + 1
         IN  [m EXCEPT !.made = Append(@, ManagerConstructed(options)),
                       !.listeners = @ \cup {id},
                       !.instance = id,
                       !.returned = id,
                       !.threw = FALSE]
    ELSE [m EXCEPT !.returned = m.instance, !.threw = FALSE]

\* SceneManager.getInstance()
SceneManagerGetInstance(m) ==
    IF m.instance = 0
    THEN [m EXCEPT !.returned = 0, !.threw = TRUE]
    ELSE [m EXCEPT !.returned = m.instance, !.threw = FALSE]

\* dispose() on the SceneManager numbered id, which a caller holds a
\* reference to: whichever object it is called on, the static instance is
\* set to null
InstanceDispose(m, id) ==
    [m EXCEPT !.listeners = @ \ {id},
              !.made[id].disposed = @ + 1,
              !.made[id].canvas = FALSE,
              !.instance = 0,
              !.returned = 0,
              !.threw = FALSE]

\* the window's resize event: every registered listener runs onResize
Resized(m) ==
    [m EXCEPT !.made = [id \in DOMAIN @ |->
                            IF id \in m.listeners
                            THEN [@[id] EXCEPT !.resized = 1]
                            ELSE @[id]],
              !.returned = 0,
              !.threw = FALSE]

\* the SceneManagers that exist: constructed and not disposed
Existing(m) == {id \in DOMAIN m.made : m.made[id].disposed = 0}

\* ================================================================== state
VARIABLES
    driven,         \* which of the two systems this behaviour's calls go to
    ember,          \* the EmberSystem object
    smoke,          \* the SmokeSystem object
    lastCall,       \* the public method called last, with its argument
    frames,         \* update calls made so far
    windowTime,     \* sum of the deltaTime arguments since construction or setIntensity
    windowStepped,  \* sum of the time steps the updates of the window integrated with
    windowCalls,    \* spawnParticle calls made by the updates of the window
    loop,           \* an AnimationLoop object and the frames it has requested
    tick,           \* what the most recent tick of loop did
    page,           \* the page of main.ts
    noise,          \* the tables perm and gradP of the noise module
    firstNoise,     \* the first noise evaluation since the last seed call, and the later ones
    built,          \* the first seed call of the behaviour, and the later ones with its value
    ring,           \* what createRockRing returned for the options of its last call
    lighting,       \* a Lighting object
    fire,           \* a Fire object
    manager         \* the SceneManager class and its instances

vars ==
    <<driven, ember, smoke, lastCall, frames, windowTime, windowStepped, windowCalls,
      loop, tick, page, noise, firstNoise, built, ring, lighting, fire, manager>>

\* the variables of the particle systems, and the others
particleVars ==
    <<driven, ember, smoke, lastCall, frames, windowTime, windowStepped, windowCalls>>
loopVars == <<loop, tick, page>>
noiseVars == <<noise, firstNoise, built, ring>>
sceneVars == <<lighting, fire, manager>>
otherVars == <<loop, tick, page, noise, firstNoise, built, ring, lighting, fire, manager>>

\* no tick yet
NoTick ==
    [count |-> 0, ran |-> FALSE, registered |-> {}, updates |-> <<>>, renders |-> 0,
     renderedAfter |-> 0, threw |-> FALSE, unregistered |-> FALSE, afterStop |-> 0,
     faulted |-> FALSE]

\* a result that carries nothing, a call record, no ring yet
NoResult == [nan |-> FALSE, value |-> 0, samples |-> {}]
Heard(op, args, result) == [op |-> op, args |-> args, result |-> result]

\* no noise evaluation since the last seed call; no seed call yet
NotEvaluated ==
    [call |-> Heard("none", <<>>, NoResult), again |-> FALSE, same |-> TRUE]
NotBuilt(tables) ==
    [value |-> {}, tables |-> tables, between |-> FALSE, again |-> FALSE, same |-> TRUE]
NoRing ==
    [options |-> {}, first |-> <<>>, rocks |-> <<>>, values |-> {},
     between |-> FALSE, varied |-> FALSE]

\* the loop and the page where they are not studied
LoopIdle ==
    /\ loop = LoopConstructed(0, FALSE)
    /\ tick = NoTick
    /\ page = PageFresh(FALSE)

\* the noise module where it is not studied: not loaded
NoiseIdle ==
    /\ noise = [perm |-> <<>>, gradP |-> <<>>]
    /\ firstNoise = NotEvaluated
    /\ built = NotBuilt([perm |-> <<>>, gradP |-> <<>>])
    /\ ring = NoRing

\* the lighting, the fire and the scene manager where they are not studied
LightingIdle == lighting = LightingConstructed(DefaultFireLight)
FireIdle == fire = FireConstructed([intensity |-> Milli])
ManagerIdle == manager = NoManager
SceneIdle == LightingIdle /\ FireIdle /\ ManagerIdle

OthersIdle == LoopIdle /\ NoiseIdle /\ SceneIdle

\* intensity / opacity arguments: below, inside and above [0, 1]
Intensities == {0 - 500, 500, 1500}

Call(op, arg) == [op |-> op, arg |-> arg]

\* main.ts constructs both systems; they share no state, so a behaviour
\* drives one of them.
Init ==
    /\ driven \in {"ember", "smoke"}
    /\ ember \in {EmberConstructed(seed) : seed \in Seeds}
    /\ smoke = SmokeConstructed
    /\ lastCall = Call("constructor", 0)
    /\ frames = 0
    /\ windowTime = 0
    /\ windowStepped = 0
    /\ windowCalls = 0
    /\ OthersIdle

EmberUpdate ==
    /\ driven = "ember"
    /\ frames < MaxFrames
    /\ \E deltaTime \in DeltaTimes, seed \in Seeds :
        LET r == EmberUpdated(ember, deltaTime, seed, Draw(seed).q)
        IN  /\ ember' = r.sys
            /\ lastCall' = Call("update", deltaTime)
            /\ windowTime' = windowTime + deltaTime
            /\ windowStepped' = windowStepped + EmberClamp(deltaTime)
            /\ windowCalls' = windowCalls + r.calls
    /\ frames' = frames + 1
    /\ UNCHANGED <<driven, smoke>>
    /\ UNCHANGED otherVars

EmberSetIntensity ==
    /\ driven = "ember"
    /\ \E intensity \in Intensities :
        /\ ember' = EmberIntensitySet(ember, intensity)
        /\ lastCall' = Call("setIntensity", intensity)
    /\ windowTime' = 0
    /\ windowStepped' = 0
    /\ windowCalls' = 0
    /\ UNCHANGED <<driven, smoke, frames>>
    /\ UNCHANGED otherVars

EmberGetObject ==
    /\ driven = "ember"
    /\ lastCall' = Call("getObject", 0)
    /\ UNCHANGED <<driven, ember, smoke, frames, windowTime, windowStepped, windowCalls>>
    /\ UNCHANGED otherVars

SmokeUpdate ==
    /\ driven = "smoke"
    /\ frames < MaxFrames
    /\ \E deltaTime \in DeltaTimes, seed \in Seeds :
        LET r == SmokeUpdated(smoke, deltaTime, seed, Draw(seed).q)
        IN  /\ smoke' = r.sys
            /\ lastCall' = Call("update", deltaTime)
            /\ windowTime' = windowTime + deltaTime
            /\ windowStepped' = windowStepped + SmokeStep(deltaTime)
            /\ windowCalls' = windowCalls + r.calls
    /\ frames' = frames + 1
    /\ UNCHANGED <<driven, ember>>
    /\ UNCHANGED otherVars

SmokeSetOpacity ==
    /\ driven = "smoke"
    /\ \E opacity \in Intensities :
        /\ smoke' = SmokeOpacitySet(smoke, opacity)
        /\ lastCall' = Call("setOpacity", opacity)
    /\ UNCHANGED <<driven, ember, frames, windowTime, windowStepped, windowCalls>>
    /\ UNCHANGED otherVars

SmokeGetObject ==
    /\ driven = "smoke"
    /\ lastCall' = Call("getObject", 0)
    /\ UNCHANGED <<driven, ember, smoke, frames, windowTime, windowStepped, windowCalls>>
    /\ UNCHANGED otherVars

SmokeGetActiveCount ==
    /\ driven = "smoke"
    /\ lastCall' = Call("getActiveCount", SmokeActiveCount(smoke))
    /\ UNCHANGED <<driven, ember, smoke, frames, windowTime, windowStepped, windowCalls>>
    /\ UNCHANGED otherVars

Next ==
    \/ EmberUpdate
    \/ EmberSetIntensity
    \/ EmberGetObject
    \/ SmokeUpdate
    \/ SmokeSetOpacity
    \/ SmokeGetObject
    \/ SmokeGetActiveCount

Spec == Init /\ [][Next]_vars

\* ------------------------------------------------- spawnParticle in a row
\* The pool as the constructor builds it, before any spawn, and then
\* spawnParticle calls only (the constructor's burst loop, the spawn loop
\* of update): windowCalls counts them.
SpawnInit ==
    /\ driven \in {"ember", "smoke"}
    /\ ember = EmberPool(EmberCount)
    /\ smoke = SmokePool(SmokeCount)
    /\ lastCall = Call("constructor", 0)
    /\ frames = 0
    /\ windowTime = 0
    /\ windowStepped = 0
    /\ windowCalls = 0
    /\ OthersIdle

EmberSpawn ==
    /\ driven = "ember"
    /\ windowCalls < MaxAttempts
    /\ \E seed \in Seeds :
        /\ ember' = EmberSpawnParticle(ember, seed)
        /\ lastCall' = Call("spawnParticle", seed)
    /\ windowCalls' = windowCalls + 1
    /\ UNCHANGED <<driven, smoke, frames, windowTime, windowStepped>>
    /\ UNCHANGED otherVars

SmokeSpawn ==
    /\ driven = "smoke"
    /\ windowCalls < MaxAttempts
    /\ \E seed \in Seeds :
        /\ smoke' = SmokeSpawnParticle(smoke, seed)
        /\ lastCall' = Call("spawnParticle", seed)
    /\ windowCalls' = windowCalls + 1
    /\ UNCHANGED <<driven, ember, frames, windowTime, windowStepped>>
    /\ UNCHANGED otherVars

SpawnNext == EmberSpawn \/ SmokeSpawn

SpawnSpec == SpawnInit /\ [][SpawnNext]_vars

\* ------------------------------------------------------ the AnimationLoop
\* the record of a call of loop: tick t if the call returned at once
TickAfter(t, r) ==
    IF ~r.ran THEN t
    ELSE [count |-> t.count + 1, ran |-> TRUE, registered |-> r.registered,
          updates |-> r.updates, renders |-> r.renders,
          renderedAfter |-> r.renderedAfter, threw |-> r.threw,
          unregistered |-> r.unregistered, afterStop |-> r.afterStop,
          faulted |-> t.faulted \/ r.threw]

ParticlesIdle ==
    /\ driven = "none"
    /\ ember = EmberPool(0)
    /\ smoke = SmokePool(0)
    /\ lastCall = Call("none", 0)
    /\ frames = 0
    /\ windowTime = 0
    /\ windowStepped = 0
    /\ windowCalls = 0

\* A loop as its constructor leaves it, with or without the onUpdate and
\* onRender options; its callers then call its public methods, and the
\* browser runs the frames it requested.
LoopInit ==
    /\ ParticlesIdle
    /\ SceneIdle
    /\ loop \in {LoopConstructed(onUpdate, onRender) :
                    onUpdate \in {0} \cup Callbacks, onRender \in BOOLEAN}
    /\ tick = NoTick
    /\ page = PageFresh(FALSE)
    /\ NoiseIdle

\* What the callbacks can do in a call of loop that does or does not pass
\* its first line: the behaviour of a callback counts only if the
\* callback is invoked, so it is registered or another callback adds it,
\* and the render behaviour only if there is a render callback.
Conduct(l, ticks) ==
    {d \in [Callbacks -> Behaviours] \X RenderBehaviours :
        /\ \A c \in Callbacks :
              d[1][c] # "return" =>
                  /\ ticks
                  /\ \/ c \in Registered(l)
                     \/ \E b \in Callbacks : Other(b) = c /\ d[1][b] = "add"
        /\ d[2] # "return" => ticks /\ l.renderCallback}

\* the conduct d shows in the call with result r: every callback that does
\* other than return was invoked
Shown(d, r) ==
    /\ \A c \in Callbacks :
          d[1][c] # "return" => \E i \in DOMAIN r.updates : r.updates[i] = c
    /\ d[2] # "return" => r.renders > 0

Start ==
    /\ tick.count < MaxTicks
    /\ \E d \in Conduct(loop, ~loop.isRunning) :
        \E r \in {LoopStart(loop, d[1], d[2])} :
            /\ Shown(d, r)
            /\ loop' = Settled(r.loop)
            /\ tick' = TickAfter(tick, r)
    /\ UNCHANGED page
    /\ UNCHANGED particleVars
    /\ UNCHANGED sceneVars
    /\ UNCHANGED noiseVars

\* the browser runs a requested frame: it calls loop
AnimationFrame ==
    /\ tick.count < MaxTicks
    /\ \E id \in loop.requested, d \in Conduct(loop, loop.isRunning) :
        \E r \in {LoopTick([loop EXCEPT !.requested = @ \ {id}], d[1], d[2])} :
            /\ Shown(d, r)
            /\ loop' = Settled(r.loop)
            /\ tick' = TickAfter(tick, r)
    /\ UNCHANGED page
    /\ UNCHANGED particleVars
    /\ UNCHANGED sceneVars
    /\ UNCHANGED noiseVars

Stop ==
    /\ loop' = LoopStop(loop)
    /\ UNCHANGED <<tick, page>>
    /\ UNCHANGED particleVars
    /\ UNCHANGED sceneVars
    /\ UNCHANGED noiseVars

AddUpdateCallback ==
    /\ \E callback \in Callbacks : loop' = LoopAddUpdateCallback(loop, callback)
    /\ UNCHANGED <<tick, page>>
    /\ UNCHANGED particleVars
    /\ UNCHANGED sceneVars
    /\ UNCHANGED noiseVars

RemoveUpdateCallback ==
    /\ \E callback \in Callbacks :
        loop' = Settled(LoopRemoveUpdateCallback(loop, callback))
    /\ UNCHANGED <<tick, page>>
    /\ UNCHANGED particleVars
    /\ UNCHANGED sceneVars
    /\ UNCHANGED noiseVars

Dispose ==
    /\ loop' = Settled(LoopDispose(loop))
    /\ UNCHANGED <<tick, page>>
    /\ UNCHANGED particleVars
    /\ UNCHANGED sceneVars
    /\ UNCHANGED noiseVars

LoopNext ==
    \/ Start
    \/ AnimationFrame
    \/ Stop
    \/ AddUpdateCallback
    \/ RemoveUpdateCallback
    \/ Dispose

LoopSpec == LoopInit /\ [][LoopNext]_vars

\* ---------------------------------------------------------------- the page
\* the one update callback main.ts registers, and what it and the render
\* callback do: they return
PageCallback == 1
PageDoes == [c \in Callbacks |-> "return"]

PageInitial ==
    /\ ParticlesIdle
    /\ SceneIdle
    /\ loop = LoopConstructed(0, FALSE)
    /\ tick = NoTick
    /\ page \in {PageFresh(container) : container \in BOOLEAN}
    /\ NoiseIdle

\* the script of main.ts runs
PageLoad ==
    /\ ~page.loaded
    /\ page' = PageLoaded(page)
    /\ loop' = IF page'.app
               THEN LoopAddUpdateCallback(LoopConstructed(0, TRUE), PageCallback)
               ELSE loop
    /\ UNCHANGED tick
    /\ UNCHANGED particleVars
    /\ UNCHANGED sceneVars
    /\ UNCHANGED noiseVars

\* the timer calling start() on the loop it captured, without the `?.`
PageTimerStarting ==
    /\ page.timer
    /\ LET r == LoopStart(loop, PageDoes, "return")
       IN  /\ loop' = Settled(r.loop)
           /\ tick' = TickAfter(tick, r)
           /\ page' = [page EXCEPT !.timer = FALSE, !.starts = @ + 1]
    /\ UNCHANGED particleVars
    /\ UNCHANGED sceneVars
    /\ UNCHANGED noiseVars

\* the timer set by the script fires: app?.animationLoop.start()
PageTimer ==
    /\ page.timer
    /\ IF page.app
       THEN LET r == LoopStart(loop, PageDoes, "return")
            IN  /\ loop' = Settled(r.loop)
                /\ tick' = TickAfter(tick, r)
                /\ page' = [page EXCEPT !.timer = FALSE, !.starts = @ + 1]
       ELSE /\ page' = [page EXCEPT !.timer = FALSE]
            /\ UNCHANGED <<loop, tick>>
    /\ UNCHANGED particleVars
    /\ UNCHANGED sceneVars
    /\ UNCHANGED noiseVars

\* the browser runs a frame the page's loop requested
PageFrame ==
    /\ tick.count < MaxPageFrames
    /\ \E id \in loop.requested :
        LET r == LoopTick([loop EXCEPT !.requested = @ \ {id}], PageDoes, "return")
        IN  /\ loop' = Settled(r.loop)
            /\ tick' = TickAfter(tick, r)
    /\ UNCHANGED page
    /\ UNCHANGED particleVars
    /\ UNCHANGED sceneVars
    /\ UNCHANGED noiseVars

\* the window's beforeunload event
PageBeforeUnload ==
    /\ page.loaded
    /\ LET r == Teardown(page, loop)
       IN  /\ page' = [r.page EXCEPT !.unloading = TRUE]
           /\ loop' = Settled(r.loop)
    /\ UNCHANGED tick
    /\ UNCHANGED particleVars
    /\ UNCHANGED sceneVars
    /\ UNCHANGED noiseVars

PageNext ==
    \/ PageLoad
    \/ PageTimer
    \/ PageFrame
    \/ PageBeforeUnload

PageSpec == PageInitial /\ [][PageNext]_vars

\* ------------------------------------------------------------- the noise
\* seed values: negative, zero, positive
SeedValues == {0 - 42, 0, 42}

\* values of Date.now()
ClockValues == {1000, 1001}

\* coordinates the noise functions are evaluated at
Points == {<<1300, 0 - 700, 250>>}

NoiseFunctions == {"noise3D", "noise2D", "fbm3D", "fbm2D", "ridgedNoise3D"}

\* the module as it is loaded: seed(Date.now())
NoiseInit ==
    /\ ParticlesIdle
    /\ SceneIdle
    /\ LoopIdle
    /\ \E now \in ClockValues :
        noise = Seeded(Unseeded, now)
    /\ firstNoise = NotEvaluated
    /\ built = NotBuilt(Unseeded)
    /\ ring = NoRing

Seed ==
    /\ \E seedValue \in SeedValues :
        /\ noise' = Seeded(noise, seedValue)
        /\ built' = IF built.value = {}
                    THEN [NotBuilt(noise') EXCEPT !.value = {seedValue}]
                    ELSE IF seedValue \in built.value
                         THEN [built EXCEPT !.again = built.between,
                                            !.same = built.same /\ noise' = built.tables]
                         ELSE [built EXCEPT !.between = TRUE]
    /\ firstNoise' = NotEvaluated
    /\ UNCHANGED ring
    /\ UNCHANGED particleVars
    /\ UNCHANGED sceneVars
    /\ UNCHANGED loopVars

\* mutant: an evaluation shuffles the tables again, from its result
EvaluatedShuffling(call) ==
    /\ firstNoise' = IF firstNoise.call.op = "none"
                     THEN [NotEvaluated EXCEPT !.call = call]
                     ELSE IF firstNoise.call.op = call.op /\ firstNoise.call.args = call.args
                          THEN [firstNoise EXCEPT
                                    !.again = TRUE,
                                    !.same = firstNoise.same
                                                /\ call.result = firstNoise.call.result]
                          ELSE firstNoise
    /\ noise' = Seeded(noise, call.result.value)
    /\ UNCHANGED <<built, ring>>
    /\ UNCHANGED particleVars
    /\ UNCHANGED sceneVars
    /\ UNCHANGED loopVars

\* a noise function was called: the call is the first since the last seed
\* call, or it is compared with the first when it has the same arguments
Evaluated(call) ==
    /\ firstNoise' = IF firstNoise.call.op = "none"
                     THEN [NotEvaluated EXCEPT !.call = call]
                     ELSE IF firstNoise.call.op = call.op /\ firstNoise.call.args = call.args
                          THEN [firstNoise EXCEPT
                                    !.again = TRUE,
                                    !.same = firstNoise.same
                                                /\ call.result = firstNoise.call.result]
                          ELSE firstNoise
    /\ UNCHANGED <<noise, built, ring>>
    /\ UNCHANGED particleVars
    /\ UNCHANGED sceneVars
    /\ UNCHANGED loopVars

EvalNoise3D ==
    \E p \in Points :
        \E call \in {Heard("noise3D", p,
                        Number(Noise3D(noise, p[1], p[2], p[3]), {}))} :
            Evaluated(call)

EvalNoise2D ==
    \E p \in Points :
        \E call \in {Heard("noise2D", <<p[1], p[2]>>,
                        Number(Noise2D(noise, p[1], p[2]), {}))} :
            Evaluated(call)

EvalFbm3D ==
    \E p \in Points, octaves \in 0 .. MaxOctaves :
        \E call \in {Heard("fbm3D", <<p[1], p[2], p[3], octaves>>,
                        Fbm3D(noise, p[1], p[2], p[3], octaves, 2 * Milli, Milli \div 2))} :
            Evaluated(call)

EvalFbm2D ==
    \E p \in Points, octaves \in 0 .. MaxOctaves :
        \E call \in {Heard("fbm2D", <<p[1], p[2], octaves>>,
                        Fbm2D(noise, p[1], p[2], octaves, 2 * Milli, Milli \div 2))} :
            Evaluated(call)

EvalRidgedNoise3D ==
    \E p \in Points, octaves \in 0 .. MaxOctaves :
        \E call \in {Heard("ridgedNoise3D", <<p[1], p[2], p[3], octaves>>,
                        RidgedNoise3D(noise, p[1], p[2], p[3], octaves))} :
            Evaluated(call)

NoiseNext ==
    \/ Seed
    \/ EvalNoise3D
    \/ EvalNoise2D
    \/ EvalFbm3D
    \/ EvalFbm2D
    \/ EvalRidgedNoise3D

NoiseSpec == NoiseInit /\ [][NoiseNext]_vars

\* --------------------------------------------------------- the rock ring
\* the options createRockRing is called with: the ring of main.ts with
\* up to RockCount rocks, with each seed (22222 is the seed of main.ts) and
\* without one
RingSeeds == {0 - 42, 0, 42, 22222, Modulus}
RingOptions ==
    {[count |-> c, innerRadius |-> 1400, outerRadius |-> 1800,
      minScale |-> 400, maxScale |-> 700, seed |-> s] :
        c \in 1 .. RockCount, s \in {{v} : v \in RingSeeds} \cup {{}}}

RockInit ==
    /\ ParticlesIdle
    /\ SceneIdle
    /\ LoopIdle
    /\ \E now \in ClockValues :
        noise = Seeded(Unseeded, now)
    /\ firstNoise = NotEvaluated
    /\ built = NotBuilt(Unseeded)
    /\ ring = NoRing

\* the noise is seeded between two rings: seed(12345) of main.ts, or the
\* ground is created with the seed 11111 of main.ts
MainSeeds == {12345, 11111}
SeedBetween ==
    /\ \E seedValue \in MainSeeds :
        noise' = Seeded(noise, seedValue)
    /\ ring' = IF ring.options = {} THEN ring
               ELSE [ring EXCEPT !.between = ring.between \/ noise' # noise]
    /\ UNCHANGED <<firstNoise, built>>
    /\ UNCHANGED particleVars
    /\ UNCHANGED sceneVars
    /\ UNCHANGED loopVars

\* createRockRing(options) is called.  ring keeps the options, the rocks
\* of the first call with them, the rocks and the values of seededRandom
\* of this call, whether the noise was seeded since (between), and
\* whether a later call with the same options came after that (varied).
CreateRockRing ==
    /\ \E options \in RingOptions, now \in ClockValues :
        \E r \in {RockRing(noise, options, now)} :
        LET repeated == ring.options = {options}
        IN  /\ noise' = r.tables
            /\ ring' = [options |-> {options},
                        first |-> IF repeated THEN ring.first ELSE r.rocks,
                        rocks |-> r.rocks,
                        values |-> r.values,
                        between |-> FALSE,
                        varied |-> repeated /\ (ring.varied \/ ring.between)]
    /\ UNCHANGED <<firstNoise, built>>
    /\ UNCHANGED particleVars
    /\ UNCHANGED sceneVars
    /\ UNCHANGED loopVars

RockNext ==
    \/ SeedBetween
    \/ CreateRockRing

RockSpec == RockInit /\ [][RockNext]_vars

\* ---------------------------------------------------------- the lighting
\* setFireIntensity arguments: below, at, inside, at and above [0, 2]
Multipliers == {0 - 500, 0, 200, Milli, 2500}

\* a Lighting as its constructor leaves it, for one of the configurations
LightInit ==
    /\ ParticlesIdle
    /\ LoopIdle
    /\ NoiseIdle
    /\ lighting \in {LightingConstructed(c) : c \in FireLightConfigs}
    /\ FireIdle
    /\ ManagerIdle

LightingUpdate ==
    /\ lighting.noiseTime < MaxLightTicks * (Milli \div TicksPerSecond)
    /\ \E deltaTime \in DeltaTimes : lighting' = LightingUpdated(lighting, deltaTime)
    /\ UNCHANGED <<fire, manager>>
    /\ UNCHANGED particleVars
    /\ UNCHANGED loopVars
    /\ UNCHANGED noiseVars

LightingSetFireIntensity ==
    /\ \E multiplier \in Multipliers :
        lighting' = LightingFireIntensitySet(lighting, multiplier)
    /\ UNCHANGED <<fire, manager>>
    /\ UNCHANGED particleVars
    /\ UNCHANGED loopVars
    /\ UNCHANGED noiseVars

LightNext ==
    \/ LightingUpdate
    \/ LightingSetFireIntensity

LightSpec == LightInit /\ [][LightNext]_vars

\* -------------------------------------------------------------- the fire
\* config.intensity of the constructor: below, inside, at and above [0, 1]
FireConfigs == {[intensity |-> i] : i \in {0 - 500, 500, Milli, 2 * Milli}}

FireInit ==
    /\ ParticlesIdle
    /\ LoopIdle
    /\ NoiseIdle
    /\ LightingIdle
    /\ fire \in {FireConstructed(c) : c \in FireConfigs}
    /\ ManagerIdle

FireUpdate ==
    /\ fire.primaryMaterial.uTime < MaxFireTicks * (Milli \div TicksPerSecond)
    /\ \E deltaTime \in DeltaTimes : fire' = FireUpdated(fire, deltaTime)
    /\ UNCHANGED <<lighting, manager>>
    /\ UNCHANGED particleVars
    /\ UNCHANGED loopVars
    /\ UNCHANGED noiseVars

FireSetIntensity ==
    /\ \E intensity \in Intensities : fire' = FireIntensitySet(fire, intensity)
    /\ UNCHANGED <<lighting, manager>>
    /\ UNCHANGED particleVars
    /\ UNCHANGED loopVars
    /\ UNCHANGED noiseVars

FireNext ==
    \/ FireUpdate
    \/ FireSetIntensity

FireSpec == FireInit /\ [][FireNext]_vars

\* ----------------------------------------------------- the scene manager
\* the class before its first init; callers keep the references that init
\* and getInstance returned to them
ManagerInit ==
    /\ ParticlesIdle
    /\ LoopIdle
    /\ NoiseIdle
    /\ LightingIdle
    /\ FireIdle
    /\ manager = NoManager

ManagerInitCall ==
    /\ Len(manager.made) < MaxManagers \/ manager.instance # 0
    /\ \E enablePostProcessing \in BOOLEAN :
        manager' = SceneManagerInit(manager,
                        [enablePostProcessing |-> enablePostProcessing])
    /\ UNCHANGED <<lighting, fire>>
    /\ UNCHANGED particleVars
    /\ UNCHANGED loopVars
    /\ UNCHANGED noiseVars

ManagerGetInstance ==
    /\ manager' = SceneManagerGetInstance(manager)
    /\ UNCHANGED <<lighting, fire>>
    /\ UNCHANGED particleVars
    /\ UNCHANGED loopVars
    /\ UNCHANGED noiseVars

ManagerDispose ==
    /\ \E id \in DOMAIN manager.made :
        /\ manager.made[id].disposed < MaxDisposals
        /\ manager' = InstanceDispose(manager, id)
    /\ UNCHANGED <<lighting, fire>>
    /\ UNCHANGED particleVars
    /\ UNCHANGED loopVars
    /\ UNCHANGED noiseVars

ManagerResize ==
    /\ manager' = Resized(manager)
    /\ UNCHANGED <<lighting, fire>>
    /\ UNCHANGED particleVars
    /\ UNCHANGED loopVars
    /\ UNCHANGED noiseVars

ManagerNext ==
    \/ ManagerInitCall
    \/ ManagerGetInstance
    \/ ManagerDispose
    \/ ManagerResize

ManagerSpec == ManagerInit /\ [][ManagerNext]_vars

\* ================================================================= claims
EmberSlots == 1 .. Len(ember.particles)
SmokeSlots == 1 .. Len(smoke.particles)
UpdateStep == frames' = frames + 1

\* C1: in every state reachable from the constructors (the ember burst
\* included) by update and the other public methods, the number of active
\* particles is at most the capacity fixed at construction, and neither
\* the pool nor a buffer changes its length.
C1_ActiveWithinCapacity ==
    /\ Len(ember.particles) = EmberCount
    /\ ActiveCount(ember.particles) <= EmberCount
    /\ Len(ember.positions) = EmberCount
    /\ Len(ember.lifetimes) = EmberCount
    /\ Len(ember.sizes) = EmberCount
    /\ Len(smoke.particles) = SmokeCount
    /\ ActiveCount(smoke.particles) <= SmokeCount
    /\ Len(smoke.positions) = SmokeCount
    /\ Len(smoke.lives) = SmokeCount

\* An update has called spawnParticle more often than the ember pool had
\* room for, and the pool is full afterwards.
C1_Witness ==
    /\ driven = "ember"
    /\ lastCall.op = "update"
    /\ ActiveCount(ember.particles) = EmberCount
    /\ windowCalls + EmberBurst > EmberCount

\* C2: after the constructor and after every update, every inactive ember
\* has y = -100 in the position buffer and 0 in the life buffer, and every
\* inactive smoke particle has 1 in the life buffer.
C2_InactiveInvisible ==
    /\ \A i \in EmberSlots :
        ~ember.particles[i].active =>
            /\ ember.positions[i].y = OffScreenY
            /\ ember.lifetimes[i] = 0
    /\ \A i \in SmokeSlots :
        ~smoke.particles[i].active => smoke.lives[i] = SmokeDead

\* An ember that was drawn while alive (its size entry was written) died in
\* the update just made.
C2_Witness ==
    /\ driven = "ember"
    /\ lastCall.op = "update"
    /\ \E i \in EmberSlots :
        /\ ~ember.particles[i].active
        /\ ember.particles[i].age >= ember.particles[i].maxLife
        /\ ember.particles[i].maxLife > 0
        /\ ember.sizes[i] > 0

\* C3: a spawnParticle call made when every particle of the pool is active
\* changes no particle and no buffer entry.
C3_SaturatedSpawnIsNoOp ==
    [][/\ (driven = "ember" /\ ActiveCount(ember.particles) = Len(ember.particles))
            => ember' = ember
       /\ (driven = "smoke" /\ ActiveCount(smoke.particles) = Len(smoke.particles))
            => smoke' = smoke]_vars

\* spawnParticle has been called on a full smoke pool.
C3_Witness ==
    /\ driven = "smoke"
    /\ lastCall.op = "spawnParticle"
    /\ ActiveCount(smoke.particles) = SmokeCount
    /\ windowCalls > SmokeCount

\* C4: from a pool of capacity K with every particle inactive, after N
\* spawnParticle calls exactly min(N, K) particles are active; a call that
\* finds an inactive slot activates the lowest-index one and leaves every
\* other slot as it was.
C4_SpawnFillsLowestSlot ==
    [][/\ driven = "ember" =>
            /\ ActiveCount(ember'.particles) = Min(windowCalls', EmberCount)
            /\ \A i \in EmberSlots :
                (~ember.particles[i].active /\ \A j \in 1 .. (i - 1) : ember.particles[j].active)
                    => /\ ember'.particles[i].active
                       /\ \A j \in EmberSlots \ {i} : ember'.particles[j] = ember.particles[j]
       /\ driven = "smoke" =>
            /\ ActiveCount(smoke'.particles) = Min(windowCalls', SmokeCount)
            /\ \A i \in SmokeSlots :
                (~smoke.particles[i].active /\ \A j \in 1 .. (i - 1) : smoke.particles[j].active)
                    => /\ smoke'.particles[i].active
                       /\ \A j \in SmokeSlots \ {i} : smoke'.particles[j] = smoke.particles[j]]_vars

\* More spawnParticle calls than the ember pool holds have been made.
C4_Witness ==
    /\ driven = "ember"
    /\ windowCalls > EmberCount
    /\ ActiveCount(ember.particles) = EmberCount

\* C5 as stated: the spawnParticle calls made by update calls whose
\* deltaTime arguments sum to T number spawnRate * T within 1, whatever
\* the split of T into calls (counted in 1/TicksPerSecond of a particle).
C5_SpawnCountTracksTime ==
    /\ driven = "ember" =>
        Abs(windowCalls * TicksPerSecond - EmberSpawnRate * windowTime) <= TicksPerSecond
    /\ driven = "smoke" =>
        Abs(windowCalls * TicksPerSecond - SmokeSpawnRate * windowTime) <= TicksPerSecond

\* C5 amended: the spawnParticle calls number spawnRate * T within 1, for T
\* the sum of the steps the updates integrate with: each deltaTime clamped
\* to 0.1 s in EmberSystem, each deltaTime as given in SmokeSystem.
C5_SpawnCountTracksSteppedTime ==
    /\ driven = "ember" =>
        Abs(windowCalls * TicksPerSecond - EmberSpawnRate * windowStepped) <= TicksPerSecond
    /\ driven = "smoke" =>
        Abs(windowCalls * TicksPerSecond - SmokeSpawnRate * windowStepped) <= TicksPerSecond

\* Several ember updates, one of them with a clamped deltaTime, have spawned.
C5_Witness ==
    /\ driven = "ember"
    /\ frames > 1
    /\ windowStepped < windowTime
    /\ windowCalls > 1

\* C6: an update with dt > 0 strictly decreases the life of every active
\* ember; a spawned ember starts from life 1; an ember is active after an
\* update exactly if its life is still above 0.
C6_EmberLifeDecreasesUntilDeath ==
    [][(driven = "ember" /\ UpdateStep) =>
        \A i \in EmberSlots :
            LET p == ember.particles[i]
                q == ember'.particles[i]
                dt == Min(lastCall'.arg, MaxDelta)
            IN  /\ (p.active /\ dt > 0) => q.life < p.life
                /\ p.active => (q.active <=> q.life > 0)
                /\ (~p.active /\ q.active) =>
                    /\ q.age = dt
                    /\ q.life <= Milli
                    /\ dt > 0 => q.life < Milli
                /\ q.active => q.life > 0]_vars

\* An ember that lived through an update has died in a later one.
C6_Witness ==
    /\ driven = "ember"
    /\ lastCall.op = "update"
    /\ lastCall.arg > 0
    /\ \E i \in EmberSlots :
        /\ ~ember.particles[i].active
        /\ ember.particles[i].maxLife > 0
        /\ ember.particles[i].life = 0
        /\ ember.sizes[i] > 0

\* C7: an update with deltaTime > 0 strictly increases the life of every
\* active smoke particle; a spawned particle starts from life 0; a particle
\* is active after an update exactly if its life is still below 1.
C7_SmokeLifeIncreasesUntilDeath ==
    [][(driven = "smoke" /\ UpdateStep) =>
        \A i \in SmokeSlots :
            LET p == smoke.particles[i]
                q == smoke'.particles[i]
                deltaTime == lastCall'.arg
            IN  /\ (p.active /\ deltaTime > 0) => q.life > p.life
                /\ p.active => (q.active <=> q.life < SmokeDead)
                /\ (~p.active /\ q.active) =>
                    /\ q.life >= 0
                    /\ q.life = (q.lifeSpeed * deltaTime) \div TicksPerSecond
                /\ q.active => q.life < SmokeDead]_vars

\* A smoke particle that lived through an update has died in a later one.
C7_Witness ==
    /\ driven = "smoke"
    /\ lastCall.op = "update"
    /\ lastCall.arg > 0
    /\ \E i \in SmokeSlots :
        /\ ~smoke.particles[i].active
        /\ smoke.particles[i].life >= SmokeDead
        /\ smoke.sizes[i] > 0

\* Whether a particle moved from `from` to `to` no further, on any axis,
\* than one moved from `from` to `ref`.
NoFurther(from, to, ref) ==
    /\ Abs(to.x - from.x) <= Abs(ref.x - from.x)
    /\ Abs(to.y - from.y) <= Abs(ref.y - from.y)
    /\ Abs(to.z - from.z) <= Abs(ref.z - from.z)

\* C8: EmberSystem.update with deltaTime > 0.1 s ages no ember by more than
\* 0.1 s, moves no ember further than the 0.1 s step does, and advances the
\* spawn accumulator, the noise time and the time uniform as deltaTime =
\* 0.1 s does.
C8_EmberLargeStepIsClamped ==
    [][(driven = "ember" /\ UpdateStep /\ lastCall'.arg > MaxDelta) =>
        \E seed \in Seeds :
            LET ref == EmberUpdated(ember, MaxDelta, seed, Draw(seed).q).sys
            IN  /\ \A i \in EmberSlots :
                    /\ ember.particles[i].active =>
                        ember'.particles[i].age - ember.particles[i].age <= MaxDelta
                    /\ ember'.particles[i].active = ref.particles[i].active
                    /\ (ember.particles[i].active /\ ember'.particles[i].active) =>
                        NoFurther(ember.particles[i].position,
                                  ember'.particles[i].position,
                                  ref.particles[i].position)
                /\ ember'.spawnAccumulator = ref.spawnAccumulator
                /\ ember'.uTime = ember.uTime + MaxDelta
                /\ ember'.noiseTime = ember.noiseTime + MaxDelta]_vars

\* An ember has lived through an update called with more than 0.1 s.
C8_Witness ==
    /\ driven = "ember"
    /\ lastCall = Call("update", MaxDelta + 1)
    /\ \E i \in EmberSlots :
        /\ ember.particles[i].active
        /\ ember.particles[i].age > MaxDelta
        /\ ember.positions[i] = ember.particles[i].position

\* C9: SmokeSystem.update with deltaTime > 0.1 s moves no active smoke
\* particle further than the 0.1 s step does and advances its life by at
\* most lifeSpeed * 0.1.
C9_SmokeLargeStepIsClamped ==
    [][(driven = "smoke" /\ UpdateStep /\ lastCall'.arg > MaxDelta) =>
        \E seed \in Seeds :
            LET ref == SmokeUpdated(smoke, MaxDelta, seed, Draw(seed).q).sys
            IN  \A i \in SmokeSlots :
                    /\ smoke.particles[i].active =>
                        smoke'.particles[i].life - smoke.particles[i].life
                            <= (smoke.particles[i].lifeSpeed * MaxDelta) \div TicksPerSecond
                    /\ (smoke.particles[i].active /\ smoke'.particles[i].active) =>
                        NoFurther(smoke.particles[i].position,
                                  smoke'.particles[i].position,
                                  ref.particles[i].position)]_vars

\* C10: a particle's active flag turns true only in an update, which
\* leaves it freshly spawned and aged by that update's step, and turns
\* false only in an update that brought its life to the terminal bound;
\* setIntensity, setOpacity, getObject and getActiveCount change no
\* particle.
C10_ParticleStateMachine ==
    [][/\ \A i \in EmberSlots :
            LET p == ember.particles[i]
                q == ember'.particles[i]
            IN  /\ (~p.active /\ q.active) =>
                    /\ UpdateStep
                    /\ q.age = Min(lastCall'.arg, MaxDelta)
                    /\ q.life > 0
                /\ (p.active /\ ~q.active) => (UpdateStep /\ q.life <= 0)
       /\ \A i \in SmokeSlots :
            LET p == smoke.particles[i]
                q == smoke'.particles[i]
            IN  /\ (~p.active /\ q.active) =>
                    /\ UpdateStep
                    /\ q.life = (q.lifeSpeed * lastCall'.arg) \div TicksPerSecond
                    /\ q.life < SmokeDead
                /\ (p.active /\ ~q.active) => (UpdateStep /\ q.life >= SmokeDead)
       /\ ~UpdateStep =>
            /\ ember'.particles = ember.particles
            /\ smoke'.particles = smoke.particles]_vars

\* The slot of the ember of the initial burst holds a later ember: the slot
\* went Inactive -> Active -> Inactive -> Active.
C10_Witness ==
    /\ driven = "ember"
    /\ lastCall.op = "update"
    /\ ember.particles[1].active
    /\ ember.particles[1].age < ember.noiseTime

\* ------------------------------------------------- AnimationLoop and page
\* how many times the last tick invoked update callback c
Invocations(c) == Cardinality({i \in DOMAIN tick.updates : tick.updates[i] = c})

\* what C11 says of a tick: every update callback registered at its start
\* was invoked exactly once, and the render callback, if the loop has one,
\* was invoked once, after all the update invocations
EachOnceThenRender ==
    /\ \A c \in tick.registered : Invocations(c) = 1
    /\ loop.renderCallback =>
        /\ tick.renders = 1
        /\ tick.renderedAfter = Len(tick.updates)
        /\ \A c \in tick.registered :
            \E i \in 1 .. tick.renderedAfter : tick.updates[i] = c

C12_LoopStoppedFirstSceneManagerLast ==
    page.order # <<>> =>
        LET at(call) == CHOOSE i \in DOMAIN page.order : page.order[i] = call
        IN  /\ \A i \in DOMAIN page.order :
                page.order[i] \notin {"animationLoop", "cameraControls", "sceneManager"}
                    => (at("animationLoop") < i /\ i < at("sceneManager"))
            /\ at("sceneManager") = Len(page.order)

\* C13: once an update callback or the render callback has thrown in a
\* tick, the exception having left loop, no later tick invokes any update
\* or render callback.
C13_ThrowEndsTheLoop ==
    [][(tick.faulted /\ tick'.count > tick.count)
          => (tick'.updates = <<>> /\ tick'.renders = 0)]_vars

\* C14: when #app is missing, init throws before anything is constructed;
\* afterwards app stays null, no frame loop is ever started, and the unload
\* handler disposes nothing.
C14_MissingContainerBuildsNothing ==
    (page.loaded /\ ~page.container) =>
        /\ page.threw
        /\ page.constructed = <<>>
        /\ ~page.app
        /\ ~page.timer
        /\ page.starts = 0
        /\ ~loop.isRunning
        /\ tick.count = 0
        /\ page.order = <<>>
        /\ \A r \in Resources : page.disposals[r] = 0

C14_Witness == page.loaded /\ ~page.container /\ page.unloading

\* C15: after the page-unload teardown every owned GPU resource has had
\* dispose() called exactly once, the scene traversal of
\* SceneManager.dispose included.
C15_EachResourceDisposedOnce ==
    page.order # <<>> => \A r \in Resources : page.disposals[r] = 1

\* the options of the last createRockRing call
RingCalled == ring.options # {}
LastOptions == CHOOSE o \in ring.options : TRUE

\* C16: for createRockRing with any count and any seed (0, a multiple of
\* 2147483647, a negative seed, the Date.now() default) and innerRadius <=
\* outerRadius, every rock's placement radius lies in [innerRadius,
\* outerRadius], that is every value of the seeded generator lies in [0, 1]
\* (its numerator in 0 .. 2147483646).
C16_RadiusWithinBand ==
    RingCalled =>
        /\ \A n \in DOMAIN ring.rocks :
            /\ ring.rocks[n].radius >= LastOptions.innerRadius
            /\ ring.rocks[n].radius <= LastOptions.outerRadius
        /\ \A v \in ring.values : v >= 0 /\ v <= Modulus - 1

\* C17: createRockRing called twice with the same options including a seed
\* gives the same placements (angle, radius, scale, rotation) and the same
\* vertex positions both times, whatever the noise tables were before each
\* call.
C17_SameSeedSameRing ==
    (RingCalled /\ LastOptions.seed # {}) => ring.rocks = ring.first

\* a ring with a seed was created again after the noise was seeded between
C17_Witness ==
    /\ RingCalled
    /\ LastOptions.seed # {}
    /\ ring.varied

\* C18: noise3D, noise2D, fbm3D, fbm2D and ridgedNoise3D never modify perm
\* or gradP, so between two seed calls a repeated evaluation at the same
\* coordinates returns the value of the first, and seed(v) called again
\* with the same v rebuilds the same tables.
C18_NoiseFunctionsArePure ==
    [][/\ firstNoise'.call.op \in NoiseFunctions =>
            /\ noise' = noise
            /\ firstNoise'.same
       /\ built'.same]_vars

\* an evaluation was repeated, and seed(v) was called again after a seed
\* call with another value
C18_Witness ==
    /\ firstNoise.again
    /\ built.again

\* perm is a permutation of 0 .. 255 mirrored to 512 entries, and every
\* gradP[i] is grad3[perm[i] % 12]
TablesWellFormed(tables) ==
    /\ {tables.perm[i] : i \in 0 .. (TableSize - 1)} = 0 .. (TableSize - 1)
    /\ \A i \in 0 .. (TableSize - 1) : tables.perm[i + TableSize] = tables.perm[i]
    /\ \A i \in DOMAIN tables.gradP :
        tables.gradP[i] = Grad3[(tables.perm[i] % 12) + 1]

\* C19: after seed(v) for any integer v (0 and negative integers included)
\* the first 256 entries of perm are a permutation of 0 .. 255, perm[i +
\* 256] = perm[i], and every gradP[i] is grad3[perm[i] mod 12].
C19_SeedBuildsPermutation ==
    TablesWellFormed(noise)

\* C20: fbm3D returns a value in [-1, 1] for every octave count (0 and 1
\* included) and a persistence between 0 and 1, provided each noise3D
\* sample lies in [-1, 1].
C20_Fbm3DWithinUnit ==
    (/\ firstNoise.call.op = "fbm3D"
     /\ \A sample \in firstNoise.call.result.samples : Abs(sample) <= Milli) =>
        /\ ~firstNoise.call.result.nan
        /\ Abs(firstNoise.call.result.value) <= Milli

\* C21: in every state reachable through the Lighting constructor, update
\* and setFireIntensity, the intensity of the fire point light is at least
\* the floor of 0.5.
C21_FireLightNeverBelowFloor == lighting.intensity >= 500

\* C22: the uIntensity uniform of both flame layers lies in [0, 1] in every
\* state reachable through the Fire constructor, with any config.intensity,
\* and setIntensity, with any argument.
C22_IntensityUniformWithinUnit ==
    /\ 0 <= fire.primaryMaterial.uIntensity
    /\ fire.primaryMaterial.uIntensity <= Milli
    /\ 0 <= fire.secondaryMaterial.uIntensity
    /\ fire.secondaryMaterial.uIntensity <= Milli

\* C23: after construction and after any update calls the object that
\* Fire.getObject() returns contains the two flame layers, the primary and
\* the secondary mesh, and the time uniforms of their materials differ by
\* the constant phase offset.
C23_TwoLayersWithPhaseOffset ==
    /\ {FireObject(fire)[i] : i \in DOMAIN FireObject(fire)}
            = {"primaryFire", "secondaryFire"}
    /\ fire.secondaryMaterial.uTime - fire.primaryMaterial.uTime = Pi

\* C24: at most one SceneManager exists at any time; init while an
\* instance exists returns that instance and constructs nothing, else it
\* constructs one; getInstance throws exactly when there is no instance.
C24_AtMostOneSceneManager ==
    /\ Cardinality(Existing(manager)) <= 1
    /\ Cardinality(manager.listeners) <= 1
    /\ manager.threw => manager.instance = 0
    /\ manager.returned # 0 => manager.returned = manager.instance

\* the time step and the spawnParticle calls of the update this step is
StepDelta == lastCall'.arg
StepCalls == windowCalls' - windowCalls

\* C25: after EmberSystem.setIntensity(x) the spawn attempts of the
\* following update are those of spawnRate scaled by x clamped to [0, 1];
\* after setIntensity(0) the update spawns nothing.
C25_IntensityScalesSpawning ==
    [][(driven = "ember" /\ lastCall.op = "setIntensity" /\ UpdateStep) =>
        LET clamped == Max(0, Min(Milli, lastCall.arg))
        IN  StepCalls = (clamped * EmberSpawnRate * EmberClamp(StepDelta))
                            \div (Milli * TicksPerSecond)
    ]_vars

C27_ActiveParticlesAgeOut ==
    [][(UpdateStep /\ StepDelta > 0) =>
        /\ driven = "ember" =>
            /\ \A i \in EmberSlots :
                ember.particles[i].active =>
                    /\ ember'.particles[i].age
                            = ember.particles[i].age + EmberClamp(StepDelta)
                    /\ ember'.particles[i].age > ember.particles[i].age
                    /\ ember'.particles[i].active
                            <=> (ember'.particles[i].age < ember'.particles[i].maxLife)
            /\ (StepCalls > 0 /\ FindInactive(ember.particles) # 0) =>
                ember'.particles[FindInactive(ember.particles)].age
                        = EmberClamp(StepDelta)
        /\ driven = "smoke" =>
            /\ \A i \in SmokeSlots :
                smoke.particles[i].active =>
                    /\ smoke'.particles[i].life
                            = smoke.particles[i].life
                                + (smoke.particles[i].lifeSpeed * StepDelta)
                                        \div TicksPerSecond
                    /\ smoke'.particles[i].life > smoke.particles[i].life
                    /\ smoke'.particles[i].active
                            <=> (smoke'.particles[i].life < SmokeDead)
            /\ (StepCalls > 0 /\ FindInactive(smoke.particles) # 0) =>
                LET fresh == smoke'.particles[FindInactive(smoke.particles)]
                IN  fresh.life = (fresh.lifeSpeed * StepDelta) \div TicksPerSecond
    ]_vars

\* An ember's slot has been spawned into again after the ember died: slots
\* are first filled in ascending order, and here an active ember is younger
\* than an active ember in a higher slot.
C27_Witness ==
    /\ driven = "ember"
    /\ lastCall.op = "update"
    /\ \E i, j \in EmberSlots :
        /\ i < j
        /\ ember.particles[i].active
        /\ ember.particles[j].active
        /\ ember.particles[i].age < ember.particles[j].age

\* C28: once stop() or dispose() has been called no update callback and no
\* render callback is invoked until start() is called again; when it is
\* called from inside an update callback, the remaining callbacks and the
\* render of that tick are not invoked.
C28_StopEndsTheTick == tick.afterStop = 0

\* C29: at most one animation-frame request of the loop is pending at any
\* time: none while the loop is stopped, and while it is running exactly
\* the one whose id is animationFrameId.
C29_AtMostOnePendingFrame ==
    /\ Cardinality(loop.requested) <= 1
    /\ ~loop.isRunning => (loop.requested = {} /\ loop.animationFrameId = 0)
    /\ loop.isRunning => loop.requested = {loop.animationFrameId}

\* A callback stopped the loop in the middle of a tick, after the tick had
\* requested the next frame: that request is not pending.
C29_Witness ==
    /\ tick.ran
    /\ tick.afterStop > 0
    /\ ~loop.isRunning
    /\ loop.nextFrameId > 1
    /\ loop.requested = {}

\* C30: when the unload teardown has run before the start timer fires,
\* the timer finds app null: it starts nothing, the loop is never started
\* and no update or render callback is ever invoked.
C30_TimerAfterTeardownStartsNothing ==
    [][(page.unloading /\ page.timer /\ ~page'.timer) =>
        /\ UNCHANGED <<loop, tick>>
        /\ page'.starts = 0
        /\ ~loop'.isRunning
        /\ loop'.requested = {}
        /\ tick'.count = 0
    ]_vars

\* The page was built, torn down, and then its timer fired.
C30_Witness ==
    /\ page.constructed = Constructions
    /\ page.unloading
    /\ page.order # <<>>
    /\ ~page.timer
    /\ page.starts = 0


====
